---- MODULE Spec2Model ----
(***************************************************************************)
(* A model of the RAML client generator (validateParam, template,          *)
(* sanitizeAST, httpRequest, attachQuery, attachHeaders, attachMethods,    *)
(* attachResources, generateClient) and of the middleware dispatcher       *)
(* (use, core, disuse and the 'all' listener) that executes its requests.  *)
(*                                                                         *)
(* JavaScript values are records [t, s, n]: a type tag, a text payload and *)
(* a numeric payload.  Arrays of path nodes live in a heap, since the code *)
(* attaches meta data (baseUri, query, headers) to them and closures keep  *)
(* references to them.  Objects of the generated DSL are records           *)
(* [call, props]: what happens when the value is called, and its           *)
(* properties.                                                             *)
(***************************************************************************)
EXTENDS Integers, Sequences, FiniteSets, TLC

(***************************************************************************)
(* Bounds of the model.                                                    *)
(***************************************************************************)
MaxOps == 3
MaxHandles == 4
MaxRuns == 1
MaxStack == 2
MaxLive == 2

(***************************************************************************)
(* JavaScript values.  Numbers are kept in tenths, so that 15 is 1.5.      *)
(***************************************************************************)
Undef == [t |-> "undefined", s |-> "", n |-> 0]
Null == [t |-> "null", s |-> "", n |-> 0]
Str(x) == [t |-> "string", s |-> x, n |-> 0]
Num(k) == [t |-> "number", s |-> "", n |-> 10 * k]
Tenths(k) == [t |-> "number", s |-> "", n |-> k]
\* 1e21, the least number whose text is in exponent form; n is its place in
\* the order of the numbers of the model
Huge == [t |-> "number", s |-> "1e+21", n |-> 2000000000]
NaN == [t |-> "number", s |-> "NaN", n |-> 0]
Bool(b) == [t |-> "boolean", s |-> IF b THEN "true" ELSE "false", n |-> 0]
DateV(x) == [t |-> "date", s |-> x, n |-> 0]
Obj(x) == [t |-> "object", s |-> x, n |-> 0]
Fn(x) == [t |-> "function", s |-> x, n |-> 0]

\* value == null
IsNullish(v) == v.t \in {"undefined", "null"}

\* !!value
Truthy(v) ==
  CASE v.t \in {"undefined", "null"} -> FALSE
    [] v.t = "string" -> v.s # ""
    [] v.t = "number" -> v.s # "NaN" /\ v.n # 0
    [] v.t = "boolean" -> v.s = "true"
    [] OTHER -> TRUE

\* typeof value
TypeOf(v) ==
  CASE v.t \in {"null", "date", "object"} -> "object"
    [] OTHER -> v.t

\* String(value), for the values a template argument can be
ToText(v) ==
  CASE v.t = "string" -> v.s
    [] v.t = "number" /\ v.s # "" -> v.s
    [] v.t = "number" /\ v.n >= 0 /\ v.n % 10 = 0 -> ToString(v.n \div 10)
    [] v.t = "number" /\ v.n >= 0 -> ToString(v.n \div 10) \o "." \o ToString(v.n % 10)
    [] v.t = "number" /\ (-v.n) % 10 = 0 -> "-" \o ToString((-v.n) \div 10)
    [] v.t = "number" -> "-" \o ToString((-v.n) \div 10) \o "." \o ToString((-v.n) % 10)
    [] v.t = "boolean" -> v.s
    [] v.t = "date" -> v.s
    [] v.t = "object" -> "[object Object]"
    [] v.t = "function" -> "function " \o v.s
    [] OTHER -> v.t

\* JSON.stringify(value) of an object value (null is an object to typeof)
JSONStringify(v) ==
  IF v.t = "null" THEN Str("null") ELSE Str("{" \o v.s \o "}")

\* qs.stringify(query) of an object
QsStringify(v) == Str(v.s \o "=1")

(***************************************************************************)
(* Constants of the generator.                                             *)
(***************************************************************************)
HTTP_METHODS == <<"get", "head", "put", "post", "patch", "delete">>
RETURN_PROPERTY == "@return"
RESERVED_METHODS ==
  {HTTP_METHODS[i] : i \in DOMAIN HTTP_METHODS} \cup {"headers", "query"}

(***************************************************************************)
(* validateParam: the validation of a uri parameter.  A parameter is a     *)
(* record whose optional facets are sequences of length 0 or 1; a pattern  *)
(* is the set of the texts it matches; required is a JavaScript value and   *)
(* minimum and maximum are in tenths.  The result is "ok" or the error.    *)
(***************************************************************************)
NoFacets ==
  [displayName |-> "", type |-> "", required |-> Undef, enum |-> <<>>,
   minLength |-> <<>>, maxLength |-> <<>>, pattern |-> <<>>,
   minimum |-> <<>>, maximum |-> <<>>]

InSeq(x, sq) == \E i \in DOMAIN sq : sq[i] = x

\* the largest whole number whose text a value of the model can be
MaxWhole == 150

\* the texts of the whole numbers parseInt reads in full
DigitTexts == {ToString(k) : k \in 0..MaxWhole}

\* parseInt(value, 10): the whole number at the head of String(value).  The
\* text of a number from 1e21 on is in exponent form, 1e+21, and its head is 1
parseInt(v) ==
  CASE v.t = "number" /\ v.s = "" /\ v.n >= 0 -> Tenths(10 * (v.n \div 10))
    [] v.t = "number" /\ v.s = "" /\ v.n < 0 -> Tenths(-(10 * ((-v.n) \div 10)))
    [] v.t = "number" /\ v.s = "1e+21" -> Num(1)
    [] v.t = "string" /\ v.s \in DigitTexts ->
         Num(CHOOSE k \in 0..MaxWhole : ToString(k) = v.s)
    [] OTHER -> NaN

\* value === parseInt(value, 10)
IsInteger(v) == v.s # "NaN" /\ v = parseInt(v)

\* validateString, were the pattern tested before the other facets
validateStringPatternFirst(value, param) ==
  IF value.t # "string" THEN "TypeMismatch"
  ELSE IF param.pattern # <<>> /\ value.s \notin param.pattern[1]
    THEN "PatternViolation"
  ELSE IF param.enum # <<>> /\ ~InSeq(value.s, param.enum[1]) THEN "EnumViolation"
  ELSE IF param.minLength # <<>> /\ Len(value.s) < param.minLength[1]
    THEN "MinLengthViolation"
  ELSE IF param.maxLength # <<>> /\ Len(value.s) > param.maxLength[1]
    THEN "MaxLengthViolation"
  ELSE "ok"

validateString(value, param) ==
  IF value.t # "string" THEN "TypeMismatch"
  ELSE IF param.enum # <<>> /\ ~InSeq(value.s, param.enum[1]) THEN "EnumViolation"
  ELSE IF param.minLength # <<>> /\ Len(value.s) < param.minLength[1]
    THEN "MinLengthViolation"
  ELSE IF param.maxLength # <<>> /\ Len(value.s) > param.maxLength[1]
    THEN "MaxLengthViolation"
  ELSE IF param.pattern # <<>> /\ value.s \notin param.pattern[1]
    THEN "PatternViolation"
  ELSE "ok"

validateNumber(value, param) ==
  IF param.type = "number" /\ ~(value.t = "number" /\ value.s # "NaN")
    THEN "TypeMismatch"
  ELSE IF param.type = "integer" /\ ~IsInteger(value) THEN "TypeMismatch"
  ELSE IF param.minimum # <<>> /\ value.n < param.minimum[1] THEN "MinimumViolation"
  ELSE IF param.maximum # <<>> /\ value.n > param.maximum[1] THEN "MaximumViolation"
  ELSE "ok"

\* validateParam, were the checks of the type made for an absent value too
validateParamUnguarded(value, param) ==
  IF param.required = Bool(TRUE) /\ IsNullish(value) THEN "MissingRequired"
  ELSE IF param.type = "string" THEN validateString(value, param)
  ELSE IF param.type \in {"integer", "number"} THEN validateNumber(value, param)
  ELSE IF param.type = "date" THEN (IF value.t = "date" THEN "ok" ELSE "TypeMismatch")
  ELSE IF param.type = "boolean"
    THEN (IF value.t = "boolean" THEN "ok" ELSE "TypeMismatch")
  ELSE "ok"

validateParam(value, param) ==
  IF param.required = Bool(TRUE) /\ IsNullish(value) THEN "MissingRequired"
  ELSE IF IsNullish(value) THEN "ok"
  ELSE IF param.type = "string" THEN validateString(value, param)
  ELSE IF param.type \in {"integer", "number"} THEN validateNumber(value, param)
  ELSE IF param.type = "date" THEN (IF value.t = "date" THEN "ok" ELSE "TypeMismatch")
  ELSE IF param.type = "boolean"
    THEN (IF value.t = "boolean" THEN "ok" ELSE "TypeMismatch")
  ELSE "ok"

(***************************************************************************)
(* template: a text is a sequence of pieces, literal text or a {tag}.      *)
(* params is a sequence of [name, spec] in key order; a context is either  *)
(* an array (a sequence of values) or an object (a sequence of [name,      *)
(* value]).  The piece {} is the tag of the empty name.  The result is      *)
(* [err, out].                                                             *)
(***************************************************************************)
Lit(x) == [t |-> "lit", s |-> x]
Tag(x) == [t |-> "tag", s |-> x]

keys(params) == [i \in DOMAIN params |-> params[i].name]

HasKey(params, name) == \E i \in DOMAIN params : params[i].name = name

Lookup(params, name) ==
  params[CHOOSE i \in DOMAIN params : params[i].name = name].spec

\* context[param] of an object context
Field(context, name) ==
  IF \E i \in DOMAIN context : context[i].name = name
    THEN context[CHOOSE i \in DOMAIN context : context[i].name = name].value
    ELSE Undef

\* Matches, were the expression to match every tag
MatchesAny(params, p) == p.t = "tag"

\* a match of paramRegex: a declared name in braces; with no name declared
\* the expression is {()} and matches the empty braces
Matches(params, p) ==
  p.t = "tag" /\ (IF params = <<>> THEN p.s = "" ELSE HasKey(params, p.s))

\* validateParam(value, params[param]): params[param] is undefined for a name
\* that is not declared, and reading its `required` throws a TypeError
validateAt(value, params, name) ==
  IF HasKey(params, name) THEN validateParam(value, Lookup(params, name))
  ELSE "TypeError"

\* At, were the index never advanced
AtFirst(context, index) == IF 1 \in DOMAIN context THEN context[1] ELSE Undef

\* context[index] of an array context, index counted from 0
At(context, index) ==
  IF index + 1 \in DOMAIN context THEN context[index + 1] ELSE Undef

Replacement(v) == IF IsNullish(v) THEN "" ELSE ToText(v)

RECURSIVE replaceArray(_, _, _, _)
\* string.replace(paramRegex, ...) with an array context; index is the number
\* of matches so far minus one
replaceArray(string, params, context, index) ==
  IF string = <<>> THEN [err |-> "ok", out |-> <<>>]
  ELSE LET p == Head(string) IN
    IF Matches(params, p)
      THEN LET v == At(context, index + 1)
               e == validateAt(v, params, p.s)
           IN IF e # "ok" THEN [err |-> e, out |-> <<>>]
              ELSE LET r == replaceArray(Tail(string), params, context, index + 1)
                   IN [err |-> r.err,
                       out |-> IF r.err = "ok" THEN <<Lit(Replacement(v))>> \o r.out
                               ELSE <<>>]
      ELSE LET r == replaceArray(Tail(string), params, context, index)
           IN [err |-> r.err, out |-> IF r.err = "ok" THEN <<p>> \o r.out ELSE <<>>]

\* replaceObject, were the expression without the flag g: the first match
\* only is replaced
replaceObjectOnce(string, params, context) ==
  LET hits == {i \in DOMAIN string : Matches(params, string[i])} IN
  IF hits = {} THEN [err |-> "ok", out |-> string]
  ELSE LET i == CHOOSE i \in hits : \A j \in hits : i <= j
           v == Field(context, string[i].s)
           e == validateAt(v, params, string[i].s)
       IN IF e # "ok" THEN [err |-> e, out |-> <<>>]
          ELSE [err |-> "ok", out |-> [string EXCEPT ![i] = Lit(Replacement(v))]]

RECURSIVE replaceObject(_, _, _)
\* string.replace(paramRegex, ...) with an object context
replaceObject(string, params, context) ==
  IF string = <<>> THEN [err |-> "ok", out |-> <<>>]
  ELSE LET p == Head(string) IN
    IF Matches(params, p)
      THEN LET v == Field(context, p.s)
               e == validateAt(v, params, p.s)
           IN IF e # "ok" THEN [err |-> e, out |-> <<>>]
              ELSE LET r == replaceObject(Tail(string), params, context)
                   IN [err |-> r.err,
                       out |-> IF r.err = "ok" THEN <<Lit(Replacement(v))>> \o r.out
                               ELSE <<>>]
      ELSE LET r == replaceObject(Tail(string), params, context)
           IN [err |-> r.err, out |-> IF r.err = "ok" THEN <<p>> \o r.out ELSE <<>>]

\* params is <<>> when the mapping is absent, <<mapping>> otherwise
template(string, params, context, isArray) ==
  IF params = <<>> THEN [err |-> "ok", out |-> string]
  ELSE IF isArray THEN replaceArray(string, params[1], context, -1)
  ELSE replaceObject(string, params[1], context)

(***************************************************************************)
(* Urls.  A url is [origin, path, dir, query]: path is the sequence of its *)
(* path segments (each a text), dir says that the path ends with a         *)
(* separator, query is <<>> or <<text>>.                                   *)
(***************************************************************************)
Front(sq) == SubSeq(sq, 1, Len(sq) - 1)

IsEmptyText(text) == \A i \in DOMAIN text : text[i] = Lit("")

RECURSIVE stripLeading(_)
\* nodes.join('/').replace(/^\/+/, ''): the separators that lead the joined
\* text are those left by leading empty nodes
stripLeading(segs) ==
  IF segs = <<>> THEN <<>>
  ELSE IF IsEmptyText(Head(segs)) /\ Len(segs) > 1 THEN stripLeading(Tail(segs))
  ELSE segs

\* url.resolve(from, to) for a relative path `to` without dot segments: the
\* path of `from` up to its last separator, followed by `to` (RFC 3986 5.2)
urlResolve(from, to) ==
  IF to = <<>> \/ (Len(to) = 1 /\ IsEmptyText(to[1])) THEN from
  ELSE [from EXCEPT
          !.path = (IF from.dir \/ from.path = <<>> THEN from.path
                    ELSE Front(from.path)) \o to,
          !.dir = FALSE,
          !.query = <<>>]

\* url.resolve(from, '?' + query)
urlResolveQuery(from, query) == [from EXCEPT !.query = <<query>>]

(***************************************************************************)
(* sanitizeAST.  A raw description is [baseUri, baseUriParameters,         *)
(* version, resources]; a raw resource is [relativeUri, uriParameters,     *)
(* methods, resources] with relativeUri a text led by the piece "/".       *)
(* The result is [err, ast].                                               *)
(***************************************************************************)
MethodObj(verb) == Obj(verb)

RECURSIVE flattenResources(_)
flattenResources(resources) ==
  [i \in DOMAIN resources |->
     [route |-> Tail(resources[i].relativeUri),
      uriParameters |-> resources[i].uriParameters,
      methods |-> [j \in DOMAIN resources[i].methods |->
                     [verb |-> resources[i].methods[j],
                      method |-> MethodObj(resources[i].methods[j])]],
      resources |-> flattenResources(resources[i].resources)]]

RECURSIVE templatePath(_, _, _)
\* template over the path of the base uri, segment by segment
templatePath(path, params, context) ==
  IF path = <<>> THEN [err |-> "ok", out |-> <<>>]
  ELSE LET first == template(Head(path), params, context, FALSE) IN
    IF first.err # "ok" THEN [err |-> first.err, out |-> <<>>]
    ELSE LET rest == templatePath(Tail(path), params, context) IN
      [err |-> rest.err,
       out |-> IF rest.err = "ok" THEN <<first.out>> \o rest.out ELSE <<>>]

sanitizeAST(ast) ==
  LET context == <<[name |-> "version", value |-> ast.version]>>
      base == templatePath(ast.baseUri.path, ast.baseUriParameters, context)
  IN [err |-> base.err,
      ast |-> [baseUri |-> [ast.baseUri EXCEPT !.path = base.out],
               resources |-> flattenResources(ast.resources)]]

\* the methods of the root client: every plain HTTP method
httpMethods ==
  [i \in DOMAIN HTTP_METHODS |->
     [verb |-> HTTP_METHODS[i], method |-> MethodObj(HTTP_METHODS[i])]]

(***************************************************************************)
(* The DSL.  The heap holds the arrays of path nodes: [segs, baseUri,      *)
(* query, headers], query and headers being <<>> when the array has no     *)
(* such key and <<value>> otherwise.  A node of the DSL is [call, props].  *)
(***************************************************************************)
NoProps == [x \in {} |-> x]
EmptyObject == [call |-> <<>>, props |-> NoProps]

Set(object, name, value) ==
  [object EXCEPT !.props = (name :> value) @@ object.props]

Has(object, name) == name \in DOMAIN object.props

\* httpRequest up to the returned function: the url is resolved here, once
fullUrl(nodes) ==
  LET resolved == urlResolve(nodes.baseUri, stripLeading(nodes.segs)) IN
  IF nodes.query # <<>> /\ nodes.query[1].t = "string"
    THEN urlResolveQuery(resolved, nodes.query[1].s)
    ELSE resolved

httpRequest(h, n, method) ==
  [call |-> <<[k |-> "verb", nodes |-> n, url |-> fullUrl(h[n]), method |-> method]>>,
   props |-> NoProps]

RECURSIVE attachMethods(_, _, _, _)
RECURSIVE attachQuery(_, _, _, _)
RECURSIVE attachHeaders(_, _, _, _)

attachQuery(h, n, context, methods) ==
  IF h[n].query # <<>> THEN [h |-> h, c |-> context]
  ELSE LET routeNodes == Len(h) + 1
           h1 == Append(h, [h[n] EXCEPT !.query = <<Null>>])
           ret == attachMethods(h1, routeNodes, EmptyObject, methods)
           query == [call |-> <<[k |-> "query", nodes |-> routeNodes,
                                 methods |-> methods]>>,
                     props |-> (RETURN_PROPERTY :> ret.c)]
       IN [h |-> ret.h, c |-> Set(context, "query", query)]

attachHeaders(h, n, context, methods) ==
  IF h[n].headers # <<>> THEN [h |-> h, c |-> context]
  ELSE LET routeNodes == Len(h) + 1
           h1 == Append(h, [h[n] EXCEPT !.headers = <<Null>>])
           ret == attachMethods(h1, routeNodes, EmptyObject, methods)
           headers == [call |-> <<[k |-> "headers", nodes |-> routeNodes,
                                   methods |-> methods]>>,
                       props |-> (RETURN_PROPERTY :> ret.c)]
       IN [h |-> ret.h, c |-> Set(context, "headers", headers)]

RECURSIVE attachVerbs(_, _, _, _)
\* _.each(methods, ...) of attachMethods
attachVerbs(h, n, context, methods) ==
  IF methods = <<>> THEN context
  ELSE attachVerbs(h, n,
                   Set(context, Head(methods).verb,
                       httpRequest(h, n, Head(methods).method)),
                   Tail(methods))

attachMethods(h, n, context, methods) ==
  LET q == attachQuery(h, n, context, methods)
      hd == attachHeaders(q.h, n, q.c, methods)
  IN [h |-> hd.h, c |-> attachVerbs(hd.h, n, hd.c, methods)]

(***************************************************************************)
(* attachResources.  A text of word characters is one that \w* matches;    *)
(* the texts of the descriptions of this model that hold another character *)
(* are listed.  Literal pieces hold no brace and tag names are not empty.  *)
(***************************************************************************)
NonWordTexts == {"user-", "pre-", "-mid-", "-"}

IsWordText(x) == x \notin NonWordTexts

\* routeMatches, were the expression /^\w*(?:\{[^\{\}]+\})+/ with no end anchor
routeMatchesOpen(route) ==
  \E k \in 0..(Len(route) - 1) :
    /\ \A i \in 1..k : route[i].t = "lit" /\ IsWordText(route[i].s)
    /\ route[k + 1].t = "tag" /\ route[k + 1].s # ""

\* /^\w*(?:\{[^\{\}]+\})+$/.test(route)
routeMatches(route) ==
  \E k \in 0..(Len(route) - 1) :
    /\ \A i \in 1..k : route[i].t = "lit" /\ IsWordText(route[i].s)
    /\ \A i \in (k + 1)..Len(route) : route[i].t = "tag" /\ route[i].s # ""

RECURSIVE routeText(_)
\* the route as one string
routeText(route) ==
  IF route = <<>> THEN ""
  ELSE (IF Head(route).t = "tag" THEN "{" \o Head(route).s \o "}" ELSE Head(route).s)
       \o routeText(Tail(route))

RECURSIVE prefixText(_)
\* route.substr(0, route.indexOf('{'))
prefixText(route) ==
  IF route = <<>> \/ Head(route).t = "tag" THEN ""
  ELSE Head(route).s \o prefixText(Tail(route))

\* routeNameOf, were the name always the text before the first brace
routeNameOfPrefix(route, templateTags) == prefixText(route)

\* the name a templated route is attached under
routeNameOf(route, templateTags) ==
  IF Len(templateTags) = 1 /\ route = <<Tag(templateTags[1])>>
    THEN templateTags[1]
    ELSE prefixText(route)

\* hasReserved, were no name reserved
hasReservedNever(routeName) == FALSE

\* _.has(RESERVED_METHODS, routeName)
hasReserved(routeName) == routeName \in RESERVED_METHODS

\* extended, were the function attached without the value already there
extendedNone(context, routeName) == NoProps

\* the properties _.extend(function ..., context[routeName]) gives the function
extended(context, routeName) ==
  IF Has(context, routeName) THEN context.props[routeName].props ELSE NoProps

RECURSIVE attachResources(_, _, _, _)
RECURSIVE attachResource(_, _, _, _)

\* the body of the _.each of attachResources, for one resource
attachResource(h, n, context, resource) ==
  LET route == resource.route
      routeNodes == Len(h) + 1
      h1 == Append(h, [h[n] EXCEPT !.segs = Append(@, route)])
      templateTags == keys(resource.uriParameters)
  IN IF Len(templateTags) > 0
     THEN IF routeMatches(route)
          THEN LET templateCount == Len(templateTags)
                   routeName == routeNameOf(route, templateTags)
               IN IF hasReserved(routeName) THEN [h |-> h1, c |-> context]
                  ELSE LET accessor ==
                             [call |-> <<[k |-> "accessor", nodes |-> routeNodes,
                                          route |-> route, resource |-> resource,
                                          templateCount |-> templateCount]>>,
                              props |-> extended(context, routeName)]
                           m == attachMethods(h1, routeNodes, EmptyObject,
                                              resource.methods)
                           r == attachResources(m.h, routeNodes, m.c,
                                                resource.resources)
                       IN [h |-> r.h,
                           c |-> Set(context, routeName,
                                     Set(accessor, RETURN_PROPERTY, r.c))]
          ELSE [h |-> h1, c |-> context]
     ELSE LET routeName == routeText(route)
              newContext == IF Has(context, routeName)
                              THEN context.props[routeName] ELSE EmptyObject
              m == attachMethods(h1, routeNodes, newContext, resource.methods)
              r == attachResources(m.h, routeNodes, m.c, resource.resources)
          IN [h |-> r.h, c |-> Set(context, routeName, r.c)]

\* _.each(resources, ...): every resource in turn, whatever the body returns
attachResources(h, n, context, resources) ==
  IF resources = <<>> THEN [h |-> h, c |-> context]
  ELSE LET first == attachResource(h, n, context, Head(resources))
       IN attachResources(first.h, n, first.c, Tail(resources))

\* accessorCall, were the subtree built from the array before the last path
\* fragment is changed
accessorCallStale(h, f, args) ==
  IF Len(args) < f.templateCount
    THEN [err |-> "InsufficientArguments", h |-> h, c |-> EmptyObject]
  ELSE LET text == template(f.route, <<f.resource.uriParameters>>, args, TRUE) IN
    IF text.err # "ok" THEN [err |-> text.err, h |-> h, c |-> EmptyObject]
    ELSE LET m == attachMethods(h, f.nodes, EmptyObject, f.resource.methods)
             r == attachResources(m.h, f.nodes, m.c, f.resource.resources)
         IN [err |-> "ok",
             h |-> [r.h EXCEPT ![f.nodes].segs = [@ EXCEPT ![Len(@)] = text.out]],
             c |-> r.c]

\* accessorCall, were the child resources not attached to what it returns
accessorCallMethodsOnly(h, f, args) ==
  IF Len(args) < f.templateCount
    THEN [err |-> "InsufficientArguments", h |-> h, c |-> EmptyObject]
  ELSE LET text == template(f.route, <<f.resource.uriParameters>>, args, TRUE) IN
    IF text.err # "ok" THEN [err |-> text.err, h |-> h, c |-> EmptyObject]
    ELSE LET h1 == [h EXCEPT ![f.nodes].segs =
                      [@ EXCEPT ![Len(@)] = text.out]]
             m == attachMethods(h1, f.nodes, EmptyObject, f.resource.methods)
         IN [err |-> "ok", h |-> m.h, c |-> m.c]

\* accessorCall, were the arguments counted after the substitution
accessorCallLateCount(h, f, args) ==
  LET text == template(f.route, <<f.resource.uriParameters>>, args, TRUE) IN
  IF text.err # "ok" THEN [err |-> text.err, h |-> h, c |-> EmptyObject]
  ELSE IF Len(args) < f.templateCount
    THEN [err |-> "InsufficientArguments", h |-> h, c |-> EmptyObject]
  ELSE LET h1 == [h EXCEPT ![f.nodes].segs = [@ EXCEPT ![Len(@)] = text.out]]
           m == attachMethods(h1, f.nodes, EmptyObject, f.resource.methods)
           r == attachResources(m.h, f.nodes, m.c, f.resource.resources)
       IN [err |-> "ok", h |-> r.h, c |-> r.c]

\* the function attached for a templated route, called with args
accessorCall(h, f, args) ==
  IF Len(args) < f.templateCount
    THEN [err |-> "InsufficientArguments", h |-> h, c |-> EmptyObject]
  ELSE LET text == template(f.route, <<f.resource.uriParameters>>, args, TRUE) IN
    IF text.err # "ok" THEN [err |-> text.err, h |-> h, c |-> EmptyObject]
    ELSE LET h1 == [h EXCEPT ![f.nodes].segs =
                      [@ EXCEPT ![Len(@)] = text.out]]
             m == attachMethods(h1, f.nodes, EmptyObject, f.resource.methods)
             r == attachResources(m.h, f.nodes, m.c, f.resource.resources)
         IN [err |-> "ok", h |-> r.h, c |-> r.c]

\* the function attachQuery attaches, called with query
queryCall(h, f, query) ==
  LET q == IF query.t \in {"object", "date", "function"} THEN QsStringify(query)
           ELSE query
      h1 == [h EXCEPT ![f.nodes].query = <<q>>]
      r == attachMethods(h1, f.nodes, EmptyObject, f.methods)
  IN [err |-> "ok", h |-> r.h, c |-> r.c]

\* the function attachHeaders attaches, called with headers
headersCall(h, f, headers) ==
  IF TypeOf(headers) # "object"
    THEN [err |-> "InvalidHeaders", h |-> h, c |-> EmptyObject]
  ELSE LET h1 == [h EXCEPT ![f.nodes].headers = <<headers>>]
           r == attachMethods(h1, f.nodes, EmptyObject, f.methods)
       IN [err |-> "ok", h |-> r.h, c |-> r.c]

generateClient(ast) ==
  LET h0 == <<[segs |-> <<>>, baseUri |-> ast.baseUri, query |-> <<>>,
               headers |-> <<>>]>>
      ret == attachMethods(h0, 1, EmptyObject, httpMethods)
      client == [call |-> <<[k |-> "client", nodes |-> 1]>>,
                 props |-> (RETURN_PROPERTY :> ret.c)]
  IN attachResources(ret.h, 1, client, ast.resources)

\* requestOf, were the url resolved when the verb function is called
requestOfLateUrl(h, f, a0, a1) ==
  [options |->
     [url |-> fullUrl(h[f.nodes]),
      data |-> IF TypeOf(a0) = "object" THEN JSONStringify(a0) ELSE a0,
      method |-> f.method.s,
      headers |-> IF h[f.nodes].headers = <<>> THEN Undef
                  ELSE h[f.nodes].headers[1]],
   done |-> IF Truthy(a1) THEN a1 ELSE Fn("async")]

\* the request a verb function assembles from its arguments: [options, done]
requestOf(h, f, a0, a1) ==
  LET shift == f.method = Str("get") \/ f.method = Str("head")
      data == IF shift THEN Null ELSE a0
      done == IF shift THEN a0 ELSE a1
  IN [options |->
        [url |-> f.url,
         data |-> IF TypeOf(data) = "object" THEN JSONStringify(data) ELSE data,
         method |-> f.method.s,
         headers |-> IF h[f.nodes].headers = <<>> THEN Undef
                     ELSE h[f.nodes].headers[1]],
      done |-> IF Truthy(done) THEN done ELSE Fn("async")]

(***************************************************************************)
(* The middleware.  A plugin is [arity, ops]: the number of parameters it  *)
(* declares and what its body does, in order:                              *)
(*   "next"      next()            "done"   done()                         *)
(*   "nextE"     next(E1)                                                  *)
(*   "throw"     throw E2                                                  *)
(*   "defer"     return, and do the rest from a later callback             *)
(***************************************************************************)
E1 == Obj("E1")
E2 == Obj("E2")

Plugins ==
  {"pNext", "pNextE", "pThrow", "pDoneThrow", "pTwice", "pLater",
   "pLaterThrow", "pHang", "hClear", "hLater"}

PluginDef(p) ==
  CASE p = "pNext" -> [arity |-> 3, ops |-> <<"next">>]
    [] p = "pNextE" -> [arity |-> 3, ops |-> <<"nextE">>]
    [] p = "pDone" -> [arity |-> 3, ops |-> <<"done">>]
    [] p = "pThrow" -> [arity |-> 3, ops |-> <<"throw">>]
    [] p = "pDoneThrow" -> [arity |-> 3, ops |-> <<"done", "throw">>]
    [] p = "pTwice" -> [arity |-> 3, ops |-> <<"nextE", "next", "done">>]
    [] p = "pLater" -> [arity |-> 3, ops |-> <<"defer", "next">>]
    [] p = "pLaterThrow" -> [arity |-> 3, ops |-> <<"defer", "throw">>]
    [] p = "pHang" -> [arity |-> 3, ops |-> <<>>]
    [] p = "hClear" -> [arity |-> 4, ops |-> <<"next">>]
    [] p = "hLater" -> [arity |-> 4, ops |-> <<"defer", "done">>]
    \* the number 2, which is no function: its length is undefined, neither
    \* === 4 nor < 4, and 5 stands for it
    [] p = "2" -> [arity |-> 5, ops |-> <<>>]

Namespaces == {"ajax"}

\* the registry of the core plugins is the function middleware.core itself
\* (the assignment of the method replaces the object): its own properties
\* length, the number 2, and name, the empty text, cannot be written
Events == {"ajax", "length", "name"}

ReadOnly == {"length", "name"}

coreOwn(name) == IF name = "length" THEN <<"2">> ELSE <<>>


\* middleware.use: the stack of a namespace is <<>> (no key) or <<array>>
use(st, name, fn) ==
  [st EXCEPT ![name] = IF @ = <<>> THEN <<<<fn>>>> ELSE <<Append(@[1], fn)>>]

\* middleware.core: this.core[name] = fn, without effect on a property that
\* cannot be written
setCore(co, name, fn) ==
  IF name \in ReadOnly THEN co ELSE [co EXCEPT ![name] = <<fn>>]

RECURSIVE without(_, _)
without(sq, fn) ==
  IF sq = <<>> THEN <<>>
  ELSE IF Head(sq) = fn THEN without(Tail(sq), fn)
  ELSE <<Head(sq)>> \o without(Tail(sq), fn)

\* middleware.disuse: fn is <<>> (not given) or <<plugin>>; [err, stack]
disuse(st, name, fn) ==
  IF fn = <<>> THEN [err |-> "ok", stack |-> [st EXCEPT ![name] = <<>>]]
  ELSE IF st[name] = <<>> THEN [err |-> "TypeError", stack |-> st]
  ELSE LET left == without(st[name][1], fn[1]) IN
    [err |-> "ok",
     stack |-> [st EXCEPT ![name] = IF left = <<>> THEN <<>> ELSE <<left>>]]

\* the listener, up to its call of next: the state of one run
newRun(st, co, name, data, out) ==
  [name |-> name, data |-> data, out |-> out,
   sent |-> FALSE, index |-> 0,
   stack |-> (IF st[name] = <<>> THEN <<>> ELSE st[name][1])
             \o (IF co[name] = <<>> THEN <<>> ELSE <<co[name][1]>>),
   calls |-> <<>>, tasks |-> <<>>]

\* slice, were the run to take the array of the registry itself
sliceNot(rs, name, layers) ==
  [k \in DOMAIN rs |->
     IF rs[k].name = name
       THEN [rs[k] EXCEPT !.stack = layers]
       ELSE rs[k]]

\* this.stack[name].slice(): the runs in progress when the array of a
\* namespace becomes `layers`; each run has a copy of its own
slice(rs, name, layers) == rs

\* done, were it without the test of sent
doneUnguarded(r, err) ==
  IF r.out.t = "function"
    THEN [r EXCEPT !.sent = TRUE, !.calls = Append(@, err)]
    ELSE [r EXCEPT !.sent = TRUE]

\* done(err) of a run; calls lists the error arguments out was called with
done(r, err) ==
  IF r.sent THEN r
  ELSE IF r.out.t = "function"
    THEN [r EXCEPT !.sent = TRUE, !.calls = Append(@, err)]
    ELSE [r EXCEPT !.sent = TRUE]

RECURSIVE nextUnfinished(_, _)
\* next, were it to return without calling done when no layer is left
nextUnfinished(r, err) ==
  LET layer == r.index + 1
      r1 == [r EXCEPT !.index = @ + 1]
  IN IF r.sent \/ layer > Len(r.stack)
     THEN [r |-> r1, push |-> <<>>]
     ELSE LET arity == PluginDef(r.stack[layer]).arity IN
       IF Truthy(err)
       THEN IF arity = 4
            THEN [r |-> r1, push |-> <<[layer |-> r.stack[layer], err |-> err]>>]
            ELSE nextUnfinished(r1, err)
       ELSE IF arity < 4
            THEN [r |-> r1, push |-> <<[layer |-> r.stack[layer], err |-> Undef]>>]
            ELSE nextUnfinished(r1, Undef)

\* next, were every layer called whatever its number of parameters
nextEvery(r, err) ==
  LET layer == r.index + 1
      r1 == [r EXCEPT !.index = @ + 1]
  IN IF r.sent \/ layer > Len(r.stack)
     THEN [r |-> IF ~r.sent THEN done(r1, err) ELSE r1, push |-> <<>>]
     ELSE [r |-> r1, push |-> <<[layer |-> r.stack[layer], err |-> err]>>]

RECURSIVE next(_, _)
\* next(err) of a run, up to the call of a layer: [r, push], push being <<>>
\* or the layer to call with the error it is given
next(r, err) ==
  LET layer == r.index + 1
      r1 == [r EXCEPT !.index = @ + 1]
  IN IF r.sent \/ layer > Len(r.stack)
     THEN [r |-> IF ~r.sent THEN done(r1, err) ELSE r1, push |-> <<>>]
     ELSE LET arity == PluginDef(r.stack[layer]).arity IN
       IF Truthy(err)
       THEN IF arity = 4
            THEN [r |-> r1, push |-> <<[layer |-> r.stack[layer], err |-> err]>>]
            ELSE next(r1, err)
       ELSE IF arity < 4
            THEN [r |-> r1, push |-> <<[layer |-> r.stack[layer], err |-> Undef]>>]
            ELSE next(r1, Undef)

\* the frame of a layer that next calls inside its try block
Frame(k, call) ==
  [run |-> k, layer |-> call.layer, err |-> call.err,
   ops |-> PluginDef(call.layer).ops, try |-> TRUE]

Frames(k, push) == IF push = <<>> THEN <<>> ELSE <<Frame(k, push[1])>>

\* raise, were the call of a layer outside any try block: the exception
\* unwinds every frame, up to the caller of the verb function when the
\* trigger is below them
raiseUncaught(rs, fs, e) ==
  [runs |-> rs, frames |-> <<>>, escaped |-> fs[1].try]

\* an exception raised by the code of the top frame: the catch of the next
\* that called the layer passes it on; the exception of a later callback has
\* no caller in the pipeline.  [runs, frames, escaped]
raise(rs, fs, e) ==
  LET top == fs[Len(fs)] IN
  IF top.try
    THEN LET nx == next(rs[top.run], e) IN
      [runs |-> [rs EXCEPT ![top.run] = nx.r],
       frames |-> Front(fs) \o Frames(top.run, nx.push),
       escaped |-> FALSE]
    ELSE [runs |-> rs, frames |-> <<>>, escaped |-> FALSE]

(***************************************************************************)
(* The descriptions the generator is run on.                               *)
(***************************************************************************)
Origin == "http://api.example.com"

IdParam ==
  [NoFacets EXCEPT !.displayName = "id", !.type = "integer",
            !.required = Bool(TRUE)]

TextParam(name) == [NoFacets EXCEPT !.displayName = name, !.type = "string"]

Raw(uri, params, methods, resources) ==
  [relativeUri |-> <<Lit("/")>> \o uri, uriParameters |-> params,
   methods |-> methods, resources |-> resources]

IdResource ==
  Raw(<<Tag("id")>>, <<[name |-> "id", spec |-> IdParam]>>, <<"get">>,
      <<Raw(<<Lit("posts")>>, <<>>, <<"get">>, <<>>)>>)

UsersResource == Raw(<<Lit("users")>>, <<>>, <<"get", "post">>, <<IdResource>>)

Description(path, dir, params, resources) ==
  [baseUri |-> [origin |-> Origin, path |-> path, dir |-> dir, query |-> <<>>],
   baseUriParameters |-> params, version |-> Str("v1"), resources |-> resources]

VersionParams == <<<<[name |-> "version", spec |-> TextParam("version")]>>>>

Descriptions ==
  {Description(<<>>, FALSE, <<>>, <<UsersResource>>),
   Description(<<<<Tag("version")>>>>, FALSE, VersionParams,
               <<Raw(<<Lit("users")>>, <<>>, <<"head", "put">>, <<>>)>>),
   Description(<<<<Lit("v1")>>>>, TRUE, <<>>,
               <<Raw(<<Lit("users")>>, <<>>, <<"get">>, <<>>)>>),
   Description(<<>>, FALSE, <<>>,
               <<Raw(<<Lit("user-"), Tag("id")>>,
                     <<[name |-> "id", spec |-> IdParam]>>, <<"get">>, <<>>),
                 Raw(<<Lit("user"), Tag("id")>>,
                     <<[name |-> "id", spec |-> IdParam]>>, <<"get">>, <<>>)>>),
   Description(<<>>, FALSE, <<>>,
               <<Raw(<<Lit("pre-"), Tag("a"), Lit("-mid-"), Tag("b")>>,
                     <<[name |-> "a", spec |-> TextParam("a")],
                       [name |-> "b", spec |-> TextParam("b")]>>, <<"get">>,
                     <<Raw(<<Lit("deep")>>, <<>>, <<"get">>, <<>>)>>),
                 Raw(<<Lit("tail"), Tag("a"), Lit("x")>>,
                     <<[name |-> "a", spec |-> TextParam("a")]>>, <<"get">>, <<>>),
                 Raw(<<Lit("users")>>, <<>>, <<"get">>, <<>>)>>)}

\* descriptions with reserved names, with static and templated resources of
\* one name in either order, and with the shapes of templated routes
ById == <<[name |-> "id", spec |-> IdParam]>>

Get(uri, params, resources) == Raw(uri, params, <<"get">>, resources)

BuildDescriptions ==
  {Description(<<>>, FALSE, <<>>,
               <<Raw(<<Tag("get")>>, <<[name |-> "get", spec |-> TextParam("get")]>>,
                     <<"post">>, <<>>),
                 Get(<<Lit("query"), Tag("id")>>, ById, <<>>),
                 Get(<<Lit("users")>>, <<>>,
                     <<Raw(<<Tag("get")>>,
                           <<[name |-> "get", spec |-> TextParam("get")]>>,
                           <<"post">>, <<>>),
                       Get(<<Lit("headers"), Tag("id")>>, ById, <<>>),
                       Get(<<Tag("id")>>, ById, <<>>)>>)>>),
   Description(<<>>, FALSE, <<>>,
               <<Raw(<<Lit("users")>>, <<>>, <<"get", "post">>,
                     <<Get(<<Lit("id")>>, <<>>, <<>>),
                       Get(<<Tag("id")>>, ById, <<>>)>>),
                 Get(<<Lit("users"), Tag("id")>>, ById, <<>>)>>),
   Description(<<>>, FALSE, <<>>,
               <<Get(<<Lit("users"), Tag("id")>>, ById, <<>>),
                 Raw(<<Lit("users")>>, <<>>, <<"get", "post">>,
                     <<Get(<<Tag("id")>>, ById, <<>>),
                       Get(<<Lit("id")>>, <<>>,
                           <<Get(<<Lit("posts")>>, <<>>, <<>>)>>)>>)>>),
   Description(<<>>, FALSE, <<>>,
               <<Get(<<Tag("a"), Tag("b")>>,
                     <<[name |-> "a", spec |-> IdParam],
                       [name |-> "b", spec |-> TextParam("b")]>>, <<>>),
                 Get(<<Lit("user"), Tag("id")>>, ById,
                     <<Get(<<Tag("x")>>, ById, <<>>)>>),
                 Get(<<Lit("posts")>>, <<>>, <<Get(<<Tag("id")>>, ById, <<>>)>>)>>)}

BuildArgs ==
  {<<>>, <<Num(42)>>, <<Str("x")>>, <<Str("x"), Str("y")>>, <<Num(7), Str("y")>>}

\* the arguments user code calls the functions of the DSL with
ArgLists == {<<>>, <<Num(42)>>, <<Num(7)>>, <<Str("x")>>}
Queries == {Obj("a"), Str("c=3")}
HeaderValues == {Obj("H1"), Obj("H2"), Str("H3")}
VerbArgs == {<<Fn("cb"), Undef>>, <<Obj("body"), Fn("cb")>>, <<Str("text"), Fn("cb")>>}

(***************************************************************************)
(* The state.  pc, ast: the run of the generator; heap: the arrays of path *)
(* nodes; handles: the values of the DSL user code holds, each with what   *)
(* was asked of the DSL to obtain it; thrown: what the last call threw;    *)
(* nOps: the calls of accessors and helpers made; stack, core: the         *)
(* registered middleware; runs: the runs of the dispatcher; frames: the    *)
(* call stack of the plugins being executed.                               *)
(***************************************************************************)
VARIABLES pc, ast, heap, handles, thrown, nOps, stack, core, runs, frames,
          probe, asked

vars == <<pc, ast, heap, handles, thrown, nOps, stack, core, runs, frames,
          probe, asked>>

\* what user code has asked of a namespace: the plugins given to use and not
\* removed since, in the order of the calls, and the plugin last given to core
NoneAsked == [used |-> <<>>, core |-> <<>>]

\* no call of validateParam or template is looked at
NoProbe == [op |-> "none"]

\* a run some deferred callback of which is still to come
IsLive(r) == r.tasks # <<>>

\* user code is at rest: no plugin is being executed and it has looked at
\* the runs that are over
Idle == frames = <<>> /\ \A k \in DOMAIN runs : IsLive(runs[k])

\* what was asked for: the path, query and headers a request through the
\* handle is to carry, the arrays a later call writes to (dep), and whether
\* such a call was made since (stale)
Asked(obj, known, path, q, hd, res) ==
  [obj |-> obj, known |-> known, path |-> path, q |-> q, hd |-> hd, res |-> res,
   depP |-> {}, depQ |-> {}, depH |-> {},
   staleP |-> FALSE, staleQ |-> FALSE, staleH |-> FALSE]

Keep(hs, hd) == IF Len(hs) < MaxHandles THEN Append(hs, hd) ELSE hs

Callable(i, name, kind) ==
  /\ i \in DOMAIN handles
  /\ Has(handles[i].obj, name)
  /\ handles[i].obj.props[name].call # <<>>
  /\ handles[i].obj.props[name].call[1].k = kind

Init ==
  /\ pc = "new"
  /\ ast \in Descriptions
  /\ heap = <<>>
  /\ handles = <<>>
  /\ thrown = "ok"
  /\ nOps = 0
  /\ stack = [name \in Namespaces |-> <<>>]
  /\ core = [name \in Namespaces |-> <<>>]
  /\ runs = <<>>
  /\ frames = <<>>
  /\ probe = NoProbe
  /\ asked = [name \in Namespaces |-> NoneAsked]

\* module.exports(ast)
Generate ==
  /\ pc = "new"
  /\ LET clean == sanitizeAST(ast) IN
     IF clean.err # "ok"
     THEN /\ pc' = "failed"
          /\ thrown' = clean.err
          /\ UNCHANGED <<heap, handles>>
     ELSE LET g == generateClient(clean.ast) IN
          /\ pc' = "ready"
          /\ thrown' = "ok"
          /\ heap' = g.h
          /\ handles' = <<Asked(g.c, TRUE, <<>>, <<>>, <<>>, clean.ast.resources)>>
  /\ UNCHANGED <<probe, asked, ast, nOps, stack, core, runs, frames>>

\* the declared static resource of a handle that a property name stands for
StaticAt(hd, name) ==
  {j \in DOMAIN hd.res :
     hd.res[j].uriParameters = <<>> /\ routeText(hd.res[j].route) = name}

\* user code reads the property `name` of a value it holds, the name of a
\* declared static resource, and keeps the value if it does not hold it yet
Child(i, name) ==
  /\ pc = "ready" /\ Idle
  /\ i \in DOMAIN handles
  /\ Len(handles) < MaxHandles
  /\ Has(handles[i].obj, name)
  /\ StaticAt(handles[i], name) # {}
  /\ LET hd == handles[i]
         j == CHOOSE j \in StaticAt(hd, name) : TRUE
         got == [hd EXCEPT !.obj = hd.obj.props[name],
                           !.path = Append(@, hd.res[j].route),
                           !.res = hd.res[j].resources]
     IN /\ \A k \in DOMAIN handles : handles[k] # got
        /\ handles' = Append(handles, got)
  /\ thrown' = "ok"
  /\ UNCHANGED <<probe, asked, runs, pc, ast, heap, nOps, stack, core, frames>>

\* user code calls the accessor `name` of a value it holds
Accessor(i, name, args) ==
  /\ pc = "ready" /\ Idle /\ nOps < MaxOps
  /\ Callable(i, name, "accessor")
  /\ LET hd == handles[i]
         f == hd.obj.props[name].call[1]
         got == accessorCall(heap, f, args)
     IN /\ thrown' = got.err
        /\ heap' = got.h
        /\ handles' =
             IF got.err # "ok" THEN handles
             ELSE Keep([k \in DOMAIN handles |->
                          IF f.nodes \in handles[k].depP
                               /\ heap[f.nodes] # got.h[f.nodes]
                            THEN [handles[k] EXCEPT !.staleP = TRUE]
                            ELSE handles[k]],
                       [hd EXCEPT !.obj = got.c,
                                  !.path = Append(@, got.h[f.nodes].segs[
                                                       Len(got.h[f.nodes].segs)]),
                                  !.res = f.resource.resources,
                                  !.depP = @ \cup {f.nodes}])
  /\ nOps' = IF thrown' = "ok" THEN nOps + 1 ELSE nOps
  /\ UNCHANGED <<probe, asked, runs, pc, ast, stack, core, frames>>

\* user code calls .query(q) of a value it holds
Query(i, q) ==
  /\ pc = "ready" /\ Idle /\ nOps < MaxOps
  /\ Callable(i, "query", "query")
  /\ LET hd == handles[i]
         f == hd.obj.props["query"].call[1]
         got == queryCall(heap, f, q)
     IN /\ thrown' = got.err
        /\ heap' = got.h
        /\ handles' =
             Keep([k \in DOMAIN handles |->
                     IF f.nodes \in handles[k].depQ /\ heap[f.nodes] # got.h[f.nodes]
                       THEN [handles[k] EXCEPT !.staleQ = TRUE]
                       ELSE handles[k]],
                  [hd EXCEPT !.obj = got.c, !.q = <<q>>, !.res = <<>>,
                             !.depQ = @ \cup {f.nodes}])
  /\ nOps' = IF thrown' = "ok" THEN nOps + 1 ELSE nOps
  /\ UNCHANGED <<probe, asked, runs, pc, ast, stack, core, frames>>

\* user code calls .headers(value) of a value it holds
Headers(i, value) ==
  /\ pc = "ready" /\ Idle /\ nOps < MaxOps
  /\ Callable(i, "headers", "headers")
  /\ LET hd == handles[i]
         f == hd.obj.props["headers"].call[1]
         got == headersCall(heap, f, value)
     IN /\ thrown' = got.err
        /\ heap' = got.h
        /\ handles' =
             IF got.err # "ok" THEN handles
             ELSE Keep([k \in DOMAIN handles |->
                          IF f.nodes \in handles[k].depH
                               /\ heap[f.nodes] # got.h[f.nodes]
                            THEN [handles[k] EXCEPT !.staleH = TRUE]
                            ELSE handles[k]],
                       [hd EXCEPT !.obj = got.c, !.hd = <<value>>, !.res = <<>>,
                                  !.depH = @ \cup {f.nodes}])
  /\ nOps' = IF thrown' = "ok" THEN nOps + 1 ELSE nOps
  /\ UNCHANGED <<probe, asked, runs, pc, ast, stack, core, frames>>

(***************************************************************************)
(* Requests.  A run of the dispatcher carries, beside the state of the     *)
(* listener, what is observed of it: returned (the verb function that      *)
(* triggered it has returned), early (out was called before that), pend    *)
(* (the last error raised that no error handling plugin cleared), seen     *)
(* (pend at each call of out), escaped (an exception reached the caller of *)
(* the verb function), late (a deferred callback of the run has run), reg  *)
(* (what user code had asked of the namespace when the run began), and     *)
(* via, verb, a0, a1: the handle and the arguments of the call.            *)
(***************************************************************************)
Observed(r, hd, verb, a0, a1) ==
  [name |-> r.name, data |-> r.data, out |-> r.out, sent |-> r.sent,
   index |-> r.index, stack |-> r.stack, calls |-> r.calls, tasks |-> r.tasks,
   returned |-> FALSE, early |-> FALSE, pend |-> Undef, seen |-> <<>>,
   escaped |-> FALSE, late |-> FALSE, reg |-> asked[r.name],
   via |-> [hd EXCEPT !.obj = EmptyObject, !.res = <<>>],
   verb |-> verb, a0 |-> a0, a1 |-> a1]

\* what a call of out adds to the observations
Observe(old, new) ==
  IF Len(new.calls) > Len(old.calls)
    THEN [new EXCEPT !.seen = Append(@, new.pend), !.early = @ \/ ~new.returned]
    ELSE new

\* the pending error after a plugin passes e to next or done, or throws e
Pending(r, top, e) ==
  IF Truthy(e) THEN e
  ELSE IF PluginDef(top.layer).arity = 4 THEN Undef
  ELSE r.pend

\* with no frame left, every verb function has returned
Settle(rs, fs) ==
  IF fs = <<>> THEN [k \in DOMAIN rs |-> [rs[k] EXCEPT !.returned = TRUE]] ELSE rs

\* user code calls the verb function `name` of a value it holds
Verb(i, name, a0, a1) ==
  /\ pc = "ready" /\ Idle
  /\ Callable(i, name, "verb")
  /\ Len(runs) < MaxRuns
  /\ LET f == handles[i].obj.props[name].call[1]
         req == requestOf(heap, f, a0, a1)
         k == Len(runs) + 1
         r == Observed(newRun(stack, core, "ajax", req.options, req.done),
                       handles[i], name, a0, a1)
         nx == next(r, Undef)
         fs == Frames(k, nx.push)
     IN /\ runs' = Settle(Append(runs, Observe(r, nx.r)), fs)
        /\ frames' = fs
  /\ thrown' = "ok"
  /\ UNCHANGED <<probe, asked, pc, ast, heap, handles, nOps, stack, core>>

Top == frames[Len(frames)]

\* the plugin being executed calls next
StepNext ==
  /\ frames # <<>> /\ Top.ops # <<>>
  /\ Head(Top.ops) \in {"next", "nextE"}
  /\ LET e == IF Head(Top.ops) = "next" THEN Undef ELSE E1
         r == [runs[Top.run] EXCEPT !.pend = Pending(runs[Top.run], Top, e)]
         nx == next(r, e)
     IN /\ runs' = [runs EXCEPT ![Top.run] = Observe(r, nx.r)]
        /\ frames' = [frames EXCEPT ![Len(frames)].ops = Tail(@)]
                       \o Frames(Top.run, nx.push)
  /\ UNCHANGED <<probe, asked, pc, ast, heap, handles, thrown, nOps, stack, core>>

\* the plugin being executed calls done
StepDone ==
  /\ frames # <<>> /\ Top.ops # <<>>
  /\ Head(Top.ops) = "done"
  /\ LET r == [runs[Top.run] EXCEPT !.pend = Pending(runs[Top.run], Top, Undef)]
     IN runs' = [runs EXCEPT ![Top.run] = Observe(r, done(r, Undef))]
  /\ frames' = [frames EXCEPT ![Len(frames)].ops = Tail(@)]
  /\ UNCHANGED <<probe, asked, pc, ast, heap, handles, thrown, nOps, stack, core>>

\* the plugin being executed throws
StepThrow ==
  /\ frames # <<>> /\ Top.ops # <<>>
  /\ Head(Top.ops) = "throw"
  /\ LET r == [runs[Top.run] EXCEPT !.pend = E2]
         rs == [runs EXCEPT ![Top.run] = r]
         got == raise(rs, frames, E2)
         seen == [got.runs EXCEPT
                    ![Top.run] = [Observe(r, @) EXCEPT !.escaped = @ \/ got.escaped]]
     IN /\ runs' = Settle(seen, got.frames)
        /\ frames' = got.frames
  /\ UNCHANGED <<probe, asked, pc, ast, heap, handles, thrown, nOps, stack, core>>

\* the plugin being executed returns, leaving the rest to a later callback
StepDefer ==
  /\ frames # <<>> /\ Top.ops # <<>>
  /\ Head(Top.ops) = "defer"
  /\ LET task == [layer |-> Top.layer, err |-> Top.err, ops |-> Tail(Top.ops)]
         rs == [runs EXCEPT ![Top.run].tasks = Append(@, task)]
     IN runs' = Settle(rs, Front(frames))
  /\ frames' = Front(frames)
  /\ UNCHANGED <<probe, asked, pc, ast, heap, handles, thrown, nOps, stack, core>>

\* the plugin being executed returns
StepReturn ==
  /\ frames # <<>> /\ Top.ops = <<>>
  /\ runs' = Settle(runs, Front(frames))
  /\ frames' = Front(frames)
  /\ UNCHANGED <<probe, asked, pc, ast, heap, handles, thrown, nOps, stack, core>>

\* a deferred callback of a plugin runs
RunTask(k, j) ==
  /\ frames = <<>>
  /\ k \in DOMAIN runs /\ j \in DOMAIN runs[k].tasks
  /\ LET task == runs[k].tasks[j] IN
     /\ frames' = <<[run |-> k, layer |-> task.layer, err |-> task.err,
                     ops |-> task.ops, try |-> FALSE]>>
     /\ runs' = [runs EXCEPT
                   ![k].tasks = SubSeq(@, 1, j - 1) \o SubSeq(@, j + 1, Len(@)),
                   ![k].late = TRUE]
  /\ UNCHANGED <<probe, asked, pc, ast, heap, handles, thrown, nOps, stack, core>>

\* user code has looked at the runs that are over and lets go of them
Forget ==
  /\ frames = <<>>
  /\ \E k \in DOMAIN runs : ~IsLive(runs[k])
  /\ runs' = SelectSeq(runs, IsLive)
  /\ UNCHANGED <<probe, asked, pc, ast, heap, handles, thrown, nOps, stack, core, frames>>

\* middleware.use(name, fn)
Use(name, fn) ==
  /\ pc = "ready" /\ Idle
  /\ (IF stack[name] = <<>> THEN 0 ELSE Len(stack[name][1])) < MaxStack
  /\ stack' = use(stack, name, fn)
  /\ asked' = [asked EXCEPT ![name].used = Append(@, fn)]
  /\ thrown' = "ok"
  /\ UNCHANGED <<probe, runs, pc, ast, heap, handles, nOps, core, frames>>

\* middleware.core(name, fn)
Core(name, fn) ==
  /\ pc = "ready" /\ Idle
  /\ core' = setCore(core, name, fn)
  /\ asked' = [asked EXCEPT ![name].core = <<fn>>]
  /\ thrown' = "ok"
  /\ UNCHANGED <<probe, runs, pc, ast, heap, handles, nOps, stack, frames>>

\* middleware.disuse(name, fn)
Disuse(name, fn) ==
  /\ pc = "ready" /\ Idle
  /\ LET got == disuse(stack, name, fn) IN
     /\ stack' = got.stack
     /\ thrown' = got.err
     /\ asked' =
          IF got.err # "ok" THEN asked
          ELSE [asked EXCEPT ![name].used =
                  IF fn = <<>> THEN <<>>
                  ELSE SelectSeq(@, LAMBDA p : p # fn[1])]
  /\ UNCHANGED <<probe, runs, pc, ast, heap, handles, nOps, core, frames>>

(***************************************************************************)
(* Spec: the generator and the DSL it generates, with no plugin            *)
(* registered.  SpecPipeline: the requests of one generated client, with   *)
(* the plugins user code registers.                                        *)
(***************************************************************************)
Names == {"users", "id", "posts", "user", "user-", "pre-", "tail", "deep", ""}

Next ==
  \/ Generate
  \/ \E i \in 1..MaxHandles, name \in Names : Child(i, name)
  \/ \E i \in 1..MaxHandles, name \in Names, args \in ArgLists :
       Accessor(i, name, args)
  \/ \E i \in 1..MaxHandles, q \in Queries : Query(i, q)
  \/ \E i \in 1..MaxHandles, value \in HeaderValues : Headers(i, value)
  \/ \E i \in 1..MaxHandles, name \in RESERVED_METHODS, a \in VerbArgs :
       Verb(i, name, a[1], a[2])
  \/ Forget

Spec == Init /\ [][Next]_vars

\* SpecBuild: the generator on the descriptions of BuildDescriptions, and the
\* properties, accessors and requests of the client it gives
InitBuild ==
  /\ pc = "new"
  /\ ast \in BuildDescriptions
  /\ heap = <<>>
  /\ handles = <<>>
  /\ thrown = "ok"
  /\ nOps = 0
  /\ stack = [name \in Namespaces |-> <<>>]
  /\ core = [name \in Namespaces |-> <<>>]
  /\ runs = <<>>
  /\ frames = <<>>
  /\ probe = NoProbe
  /\ asked = [name \in Namespaces |-> NoneAsked]

BuildNames == {"users", "id", "", "user", "posts", "get", "query", "headers"}

NextBuild ==
  \/ Generate
  \/ \E i \in 1..MaxHandles, name \in BuildNames : Child(i, name)
  \/ \E i \in 1..MaxHandles, name \in BuildNames, args \in BuildArgs :
       Accessor(i, name, args)
  \/ \E i \in 1..MaxHandles, name \in {"get", "post"} :
       Verb(i, name, Obj("body"), Fn("cb"))
  \/ Forget

SpecBuild == InitBuild /\ [][NextBuild]_vars

CorePlugins == {"pDone"}

\* the client of the first description, and its property users
InitPipeline ==
  LET first == Description(<<>>, FALSE, <<>>, <<UsersResource>>)
      clean == sanitizeAST(first).ast
      g == generateClient(clean)
      root == Asked(g.c, TRUE, <<>>, <<>>, <<>>, clean.resources)
  IN /\ pc = "ready"
     /\ ast = first
     /\ heap = g.h
     /\ handles = <<[root EXCEPT !.obj = g.c.props["users"],
                                 !.path = <<clean.resources[1].route>>,
                                 !.res = clean.resources[1].resources]>>
     /\ thrown = "ok"
     /\ nOps = 0
     /\ stack = [name \in Namespaces |-> <<>>]
     /\ core = [name \in Namespaces |-> <<>>]
     /\ runs = <<>>
     /\ frames = <<>>
     /\ probe = NoProbe
     /\ asked = [name \in Namespaces |-> NoneAsked]

NextPipeline ==
  \/ \E name \in Namespaces, fn \in Plugins : Use(name, fn)
  \/ \E name \in Namespaces, fn \in CorePlugins : Core(name, fn)
  \/ \E name \in Namespaces, fn \in {<<>>} \cup {<<p>> : p \in Plugins} :
       Disuse(name, fn)
  \/ Verb(1, "post", Obj("body"), Fn("cb"))
  \/ Forget
  \/ StepNext
  \/ StepDone
  \/ StepThrow
  \/ StepDefer
  \/ StepReturn
  \/ \E k \in 1..MaxRuns, j \in 1..(MaxStack + 1) : RunTask(k, j)

SpecPipeline == InitPipeline /\ [][NextPipeline]_vars

(***************************************************************************)
(* SpecRegistry: the registry and the listener alone, on every namespace,  *)
(* with plugins that act before they return.  SpecOverlap: plugins that    *)
(* act later, the registry changed by a plugin that is being executed, and *)
(* a second trigger while a run is in progress.                            *)
(***************************************************************************)
NoHandle == Asked(EmptyObject, FALSE, <<>>, <<>>, <<>>, <<>>)

\* user code calls middleware.trigger(name, data, out)
Trigger(name) ==
  /\ pc = "ready" /\ Idle
  /\ Len(runs) < MaxLive
  /\ LET k == Len(runs) + 1
         r == Observed(newRun(stack, core, name, Obj("data"), Fn("out")),
                       NoHandle, "trigger", Obj("data"), Fn("out"))
         nx == next(r, Undef)
         fs == Frames(k, nx.push)
     IN /\ runs' = Settle(Append(runs, Observe(r, nx.r)), fs)
        /\ frames' = fs
  /\ thrown' = "ok"
  /\ UNCHANGED <<probe, asked, pc, ast, heap, handles, nOps, stack, core>>

\* the array of a namespace in the registry
Layers(st, name) == IF st[name] = <<>> THEN <<>> ELSE st[name][1]

\* the plugin being executed calls middleware.use(name, fn)
UseWithin(name, fn) ==
  /\ frames # <<>>
  /\ Len(Layers(stack, name)) < MaxStack
  /\ stack' = use(stack, name, fn)
  /\ runs' = slice(runs, name, Layers(stack', name))
  /\ asked' = [asked EXCEPT ![name].used = Append(@, fn)]
  /\ UNCHANGED <<probe, pc, ast, heap, handles, thrown, nOps, core, frames>>

\* the plugin being executed calls middleware.core(name, fn)
CoreWithin(name, fn) ==
  /\ frames # <<>>
  /\ core' = setCore(core, name, fn)
  /\ asked' = [asked EXCEPT ![name].core = <<fn>>]
  /\ UNCHANGED <<probe, pc, ast, heap, handles, thrown, nOps, stack, runs,
                 frames>>

\* the plugin being executed calls middleware.disuse(name, fn), of a
\* namespace that has plugins
DisuseWithin(name, fn) ==
  /\ frames # <<>>
  /\ disuse(stack, name, fn).err = "ok"
  /\ stack' = disuse(stack, name, fn).stack
  /\ runs' = slice(runs, name, Layers(stack', name))
  /\ asked' = [asked EXCEPT ![name].used =
                 IF fn = <<>> THEN <<>> ELSE SelectSeq(@, LAMBDA p : p # fn[1])]
  /\ UNCHANGED <<probe, pc, ast, heap, handles, thrown, nOps, core, frames>>

InitRegistry ==
  LET first == Description(<<>>, FALSE, <<>>, <<UsersResource>>)
      clean == sanitizeAST(first).ast
      g == generateClient(clean)
  IN /\ pc = "ready"
     /\ ast = first
     /\ heap = g.h
     /\ handles = <<>>
     /\ thrown = "ok"
     /\ nOps = 0
     /\ stack = [name \in Events |-> <<>>]
     /\ core = [name \in Events |-> coreOwn(name)]
     /\ runs = <<>>
     /\ frames = <<>>
     /\ probe = NoProbe
     /\ asked = [name \in Events |-> NoneAsked]

NextRegistry ==
  \/ \E name \in Events, fn \in {"pNext", "hClear"} : Use(name, fn)
  \/ \E name \in Events, fn \in {"pDone", "pNext"} : Core(name, fn)
  \/ \E name \in Events, fn \in {<<>>, <<"pNext">>} : Disuse(name, fn)
  \/ \E name \in Events : Trigger(name)
  \/ Forget
  \/ StepNext
  \/ StepDone
  \/ StepReturn

SpecRegistry == InitRegistry /\ [][NextRegistry]_vars

NextOverlap ==
  \/ \E fn \in {"pNext", "pLater"} : Use("ajax", fn)
  \/ Core("ajax", "pDone")
  \/ \E fn \in {<<>>, <<"pLater">>} : Disuse("ajax", fn)
  \/ \E fn \in {"pNext", "pLater"} : UseWithin("ajax", fn)
  \/ CoreWithin("ajax", "pDone")
  \/ \E fn \in {<<>>, <<"pLater">>} : DisuseWithin("ajax", fn)
  \/ Trigger("ajax")
  \/ Forget
  \/ StepNext
  \/ StepDone
  \/ StepDefer
  \/ StepReturn
  \/ \E k \in 1..MaxLive, j \in 1..MaxStack : RunTask(k, j)

SpecOverlap == InitPipeline /\ [][NextOverlap]_vars

(***************************************************************************)
(* The engine alone: one call of validateParam or of template, on inputs   *)
(* drawn at the start.                                                     *)
(***************************************************************************)
ProbeValues ==
  {Undef, Null, Str("ab"), Str("zz"), Str("42"), Num(0), Num(99), Num(150),
   Tenths(15), Huge, NaN, Bool(TRUE), DateV("d"), Obj("o")}

Requireds == {Undef, Bool(FALSE), Bool(TRUE)}

StringSpecs ==
  {[NoFacets EXCEPT !.displayName = "p", !.type = "string", !.required = r,
                    !.enum = e, !.minLength = lo, !.maxLength = hi,
                    !.pattern = re] :
     r \in Requireds, e \in {<<>>, << <<"ab", "abc">> >>, << <<"zz">> >>},
     lo \in {<<>>, <<3>>}, hi \in {<<>>, <<1>>},
     re \in {<<>>, <<{"zz", "42"}>>}}

NumberSpecs ==
  {[NoFacets EXCEPT !.displayName = "p", !.type = ty, !.required = r,
                    !.minimum = lo, !.maximum = hi] :
     ty \in {"integer", "number"}, r \in Requireds,
     lo \in {<<>>, <<10>>, <<1000>>}, hi \in {<<>>, <<10>>, <<1000>>}}

OtherSpecs ==
  {[NoFacets EXCEPT !.displayName = "p", !.type = ty, !.required = r] :
     ty \in {"date", "boolean", ""}, r \in Requireds}

ProbeSpecs == StringSpecs \cup NumberSpecs \cup OtherSpecs

ProbeTexts ==
  {<<Lit("/"), Tag("id")>>, <<Tag("a"), Lit("-"), Tag("b")>>,
   <<Tag("b"), Lit("-"), Tag("a")>>, <<Tag("id"), Lit("/"), Tag("id")>>,
   <<Tag("a"), Tag("b"), Tag("a")>>, <<Lit("/"), Tag("x"), Tag("id")>>,
   <<Lit("/"), Tag("")>>, <<Lit("plain")>>}

\* the mapping is absent, or empty, or declares tags
ProbeParams ==
  {<<>>, << <<>> >>, <<ById>>, << <<[name |-> "id", spec |-> TextParam("id")]>> >>,
   << <<[name |-> "a", spec |-> IdParam], [name |-> "b", spec |-> TextParam("b")]>> >>}

ProbeLists ==
  {<<>>, <<Str("42")>>, <<Num(42)>>, <<Num(1), Num(2)>>, <<Str("x"), Str("y")>>,
   <<Num(7), Str("y")>>, <<Str("x"), Num(7)>>, <<Null, Str("y")>>,
   <<Str("{id}")>>}

\* the places of a text where a declared tag stands
Hits(text, params) ==
  IF params = <<>> THEN {}
  ELSE {i \in DOMAIN text : text[i].t = "tag" /\ HasKey(params[1], text[i].s)}

\* how many declared tags stand in a text up to a place
Rank(text, params, i) == Cardinality({j \in Hits(text, params) : j <= i})

\* the object that gives each declared tag of a text the value an array
\* gives its first occurrence
NamedOf(text, params, values) ==
  IF params = <<>> THEN <<>>
  ELSE LET firsts == {i \in Hits(text, params) :
                        \A j \in Hits(text, params) :
                          text[j] = text[i] => i <= j}
           at(k) == CHOOSE i \in firsts :
                      Cardinality({j \in firsts : j <= i}) = k
       IN [k \in 1..Cardinality(firsts) |->
             [name |-> text[at(k)].s,
              value |-> IF Rank(text, params, at(k)) \in DOMAIN values
                          THEN values[Rank(text, params, at(k))]
                          ELSE Undef]]

InitEngine ==
  /\ pc = "new"
  /\ ast = Description(<<>>, FALSE, <<>>, <<>>)
  /\ heap = <<>>
  /\ handles = <<>>
  /\ thrown = "ok"
  /\ nOps = 0
  /\ stack = [name \in Namespaces |-> <<>>]
  /\ core = [name \in Namespaces |-> <<>>]
  /\ runs = <<>>
  /\ frames = <<>>
  /\ asked = [name \in Namespaces |-> NoneAsked]
  /\ probe \in
       {[op |-> "validateParam", value |-> v, param |-> p, done |-> FALSE] :
          v \in ProbeValues, p \in ProbeSpecs}
       \cup
       {[op |-> "template", text |-> t, params |-> ps, values |-> vs,
         named |-> NamedOf(t, ps, vs), done |-> FALSE] :
          t \in ProbeTexts, ps \in ProbeParams, vs \in ProbeLists}

\* validateParam(value, param)
Validate ==
  /\ probe.op = "validateParam" /\ ~probe.done
  /\ probe' = [op |-> "validateParam", value |-> probe.value,
               param |-> probe.param, done |-> TRUE,
               out |-> validateParam(probe.value, probe.param)]
  /\ UNCHANGED <<pc, ast, heap, handles, thrown, nOps, stack, core, runs,
                 frames, asked>>

\* template(text, params, context), with the array and with the object
Substitute ==
  /\ probe.op = "template" /\ ~probe.done
  /\ probe' = [op |-> "template", text |-> probe.text,
               params |-> probe.params, values |-> probe.values,
               named |-> probe.named, done |-> TRUE,
               byIndex |-> template(probe.text, probe.params, probe.values,
                                    TRUE),
               byName |-> template(probe.text, probe.params, probe.named,
                                   FALSE)]
  /\ UNCHANGED <<pc, ast, heap, handles, thrown, nOps, stack, core, runs,
                 frames, asked>>

NextEngine == Validate \/ Substitute

SpecEngine == InitEngine /\ [][NextEngine]_vars

(***************************************************************************)
(* Properties of the generated DSL, under Spec.                            *)
(***************************************************************************)
Root == handles[1]

BaseUri == heap[1].baseUri

\* the text a query given to .query stands for in a url
QueryText(q) == IF q.t = "string" THEN q.s ELSE QsStringify(q).s

RECURSIVE NodesOf(_)
\* the arrays of path nodes that the functions reachable from a value hold
NodesOf(obj) ==
  (IF obj.call = <<>> THEN {} ELSE {obj.call[1].nodes})
  \cup UNION {NodesOf(obj.props[name]) : name \in DOMAIN obj.props}

\* C1: every request issued through the subtree returned by a call
\* N.headers(H) carries exactly H, whatever calls of N.headers follow, and a
\* request through a value no .headers call led to carries no headers.
C1_HeadersSnapshots ==
  \A k \in DOMAIN runs :
    runs[k].data.headers =
      IF runs[k].via.hd = <<>> THEN Undef ELSE runs[k].via.hd[1]

\* C2: the url of every request issued through the subtree returned by
\* N.query(q), also through a later .headers on that subtree, has the query q
\* whatever calls of N.query follow, and the url of a request through a value
\* no .query call led to has no query.
C2_QuerySnapshots ==
  \A k \in DOMAIN runs :
    runs[k].data.url.query =
      IF runs[k].via.q = <<>> THEN <<>> ELSE <<QueryText(runs[k].via.q[1])>>

\* C2, the case: a request through N.query(q).headers(H) after N.query was
\* called again with another query.
C2_Witness ==
  \E k \in DOMAIN runs :
    runs[k].via.staleQ /\ runs[k].via.q # <<>> /\ runs[k].via.hd # <<>>

\* C3: every request issued through a value obtained from a call A(v) of a
\* template accessor, or from its children and helpers, targets the path
\* resolved with v, whatever calls of A follow.
C3_AccessorSnapshots ==
  \A k \in DOMAIN runs :
    runs[k].via.known =>
      [runs[k].data.url EXCEPT !.query = <<>>]
        = urlResolve(BaseUri, stripLeading(runs[k].via.path))

\* C3, the case: a request through the subtree of A(v1) after A(v2).
C3_Witness ==
  \E k \in DOMAIN runs : runs[k].via.known /\ runs[k].via.staleP

\* no body is submitted
NoBody(d) == IsNullish(d) \/ d = JSONStringify(Null)

\* C4: verb(cb) of a declared get or head submits no body and hands cb to
\* the pipeline; any other verb called as verb(data, cb) submits data,
\* serialized when it is an object, and hands cb to the pipeline.
C4_ArityShift ==
  \A k \in DOMAIN runs :
    IF runs[k].verb \in {"get", "head"}
      THEN runs[k].a0.t = "function"
             => NoBody(runs[k].data.data) /\ runs[k].out = runs[k].a0
      ELSE runs[k].a1.t = "function"
             => /\ runs[k].out = runs[k].a1
                /\ runs[k].data.data = IF TypeOf(runs[k].a0) = "object"
                                         THEN JSONStringify(runs[k].a0)
                                         ELSE runs[k].a0

\* C8: the url of a request is the base uri followed by the path segments
\* reached through the call graph, and the query when one was captured.
C8_UrlJoin ==
  \A k \in DOMAIN runs :
    runs[k].via.known =>
      /\ runs[k].data.url.origin = BaseUri.origin
      /\ runs[k].data.url.path = BaseUri.path \o runs[k].via.path
      /\ runs[k].data.url.query =
           IF runs[k].via.q = <<>> THEN <<>> ELSE <<QueryText(runs[k].via.q[1])>>

\* the sanitized resources of the description
Declared == sanitizeAST(ast).ast.resources

\* C9: a resource user-{id} with the one uri parameter id is attached to its
\* parent as the accessor "user-".
C9_DashPrefix ==
  pc = "ready" =>
    \A j \in DOMAIN Declared :
      (Declared[j].route = <<Lit("user-"), Tag("id")>>
         /\ keys(Declared[j].uriParameters) = <<"id">>)
        => /\ Has(Root.obj, "user-")
           /\ Root.obj.props["user-"].call # <<>>
           /\ Root.obj.props["user-"].call[1].k = "accessor"

\* a route with text after a template tag
TextAfterTag(route) ==
  \E i, j \in DOMAIN route : i < j /\ route[i].t = "tag" /\ route[j].t = "lit"

\* the names a route could be attached under
NamesOfRoute(route) ==
  {routeText(route), prefixText(route)} \cup {route[i].s : i \in DOMAIN route}

\* C10: a resource with declared uri parameters whose route has text after
\* a template tag is skipped: its parent has no property for it, no function
\* reachable from the parent holds its route, generation raises no error and
\* the static resources beside it are attached with their methods.
C10_SkippedRoute ==
  pc = "ready" =>
    \A i \in DOMAIN handles : \A j \in DOMAIN handles[i].res :
      LET hd == handles[i]
          resource == hd.res[j]
      IN /\ (resource.uriParameters # <<>> /\ TextAfterTag(resource.route))
              => /\ \A name \in NamesOfRoute(resource.route) : ~Has(hd.obj, name)
                 /\ \A n \in NodesOf(hd.obj) :
                      \A x \in DOMAIN heap[n].segs : heap[n].segs[x] # resource.route
         /\ resource.uriParameters = <<>>
              => /\ Has(hd.obj, routeText(resource.route))
                 /\ \A m \in DOMAIN resource.methods :
                      Has(hd.obj.props[routeText(resource.route)],
                          resource.methods[m].verb)

\* C10, the case: a generated client whose description has such a route
\* before a static resource.
C10_Witness ==
  /\ pc = "ready"
  /\ \E j \in DOMAIN Root.res :
       /\ Root.res[j].uriParameters # <<>> /\ TextAfterTag(Root.res[j].route)
       /\ \E x \in DOMAIN Root.res : x > j /\ Root.res[x].uriParameters = <<>>
                                     /\ Has(Root.obj, routeText(Root.res[x].route))

(***************************************************************************)
(* Properties of the pipeline, under SpecPipeline.                         *)
(***************************************************************************)
\* the run has come to rest: the verb function has returned, no deferred
\* callback is left and no plugin of the run is being executed
Complete(k) ==
  /\ runs[k].returned /\ runs[k].tasks = <<>>
  /\ \A f \in DOMAIN frames : frames[f].run # k

\* what the plugin does when it is called, deferred part left out
Body(p) == SelectSeq(PluginDef(p).ops, LAMBDA o : o # "defer")

\* the plugin calls next or done, at once or from a later callback, or throws
\* before it returns
Acts(p) ==
  LET ops == PluginDef(p).ops IN
  /\ ops # <<>>
  /\ Head(ops) = "defer" => Len(ops) > 1 /\ ops[2] # "throw"

\* the plugin calls next or done or throws before it returns
Synchronous(p) == PluginDef(p).ops # <<>> /\ Head(PluginDef(p).ops) # "defer"

\* the plugin makes one call of next or done, or throws, and nothing after
Sequential(p) == Len(Body(p)) <= 1

Every(sq, Test(_)) == \A j \in DOMAIN sq : Test(sq[j])

\* C5: the completion callback of a verb invocation is invoked at most
\* once, whatever the plugins do; and exactly once when every plugin of the
\* stack calls next or done or throws.
C5_CallbackOnce ==
  \A k \in DOMAIN runs :
    /\ Len(runs[k].calls) <= 1
    /\ (Complete(k) /\ Every(runs[k].stack, Acts)) => Len(runs[k].calls) = 1

\* C5, the case: a run at rest one plugin of which called next twice and
\* then done, or done and then threw.
C5_Witness ==
  \E k \in DOMAIN runs :
    /\ Complete(k) /\ Every(runs[k].stack, Acts) /\ Len(runs[k].calls) = 1
    /\ \E j \in DOMAIN runs[k].stack : runs[k].stack[j] \in {"pTwice", "pDoneThrow"}
    /\ runs[k].index > Len(runs[k].stack)

\* C6: the completion callback is never invoked before the verb invocation
\* has returned to its caller.
C6_NeverBeforeReturn == \A k \in DOMAIN runs : ~runs[k].early

\* C6, as the code has it: with an empty stack, or when every plugin of the
\* stack calls next or done or throws before it returns, the completion
\* callback is invoked before the verb invocation returns; it is invoked
\* after the return only from a later callback of a plugin.
C6_BeforeReturnWhenSynchronous ==
  \A k \in DOMAIN runs :
    /\ (runs[k].returned /\ Every(runs[k].stack, Synchronous))
         => Len(runs[k].calls) = 1 /\ runs[k].early
    /\ (runs[k].calls # <<>> /\ ~runs[k].early) => runs[k].late

\* C6, the case: a run of two plugins that called next at once, the callback
\* invoked before the return.
C6_Witness ==
  \E k \in DOMAIN runs :
    /\ runs[k].returned /\ runs[k].early
    /\ Len(runs[k].stack) >= 2 /\ Every(runs[k].stack, Synchronous)

\* C7: a failure raised in the pipeline reaches no caller of a verb function
\* as an exception, and the error argument of the completion callback is the
\* last error raised that no error handling plugin cleared.
C7_LastError ==
  \A k \in DOMAIN runs :
    /\ ~runs[k].escaped
    /\ runs[k].calls = runs[k].seen

\* C7, as the code has it: no exception reaches the caller, and when every
\* plugin of the run makes one call of next or done, or throws, and does
\* nothing after it, the error argument of the callback is the last error
\* raised that no error handling plugin cleared.
C7_LastErrorWhenSequential ==
  \A k \in DOMAIN runs :
    /\ ~runs[k].escaped
    /\ Every(runs[k].stack, Sequential) => runs[k].calls = runs[k].seen

\* C7, the case: a plugin threw, no handler cleared the error, and the
\* callback was given it.
C7_Witness ==
  \E k \in DOMAIN runs :
    /\ Every(runs[k].stack, Sequential)
    /\ \E j \in DOMAIN runs[k].stack : runs[k].stack[j] = "pThrow"
    /\ runs[k].calls = <<E2>>

\* the error the call of next of this step is given: none by the listener,
\* what the plugin passes, or what it throws
Given ==
  IF frames = <<>> \/ Top.ops = <<>> THEN Undef
  ELSE CASE Head(Top.ops) = "nextE" -> E1
         [] Head(Top.ops) = "throw" -> E2
         [] OTHER -> Undef

\* the layer is one to call with the error: four parameters when there is
\* an error, fewer when there is none
Applicable(p, e) ==
  IF Truthy(e) THEN PluginDef(p).arity = 4 ELSE PluginDef(p).arity < 4

\* the run before the step, a run that the step starts being at its start
Before(k) ==
  IF k \in DOMAIN runs THEN runs[k]
  ELSE [index |-> 0, sent |-> FALSE, calls |-> <<>>]

\* the calls of layers of a run that are being executed
Executing(fs, k) == {f \in DOMAIN fs : fs[f].run = k /\ fs[f].try}

\* C24: in a run, the pending error being what the last call of next was
\* given (or what the plugin threw), a layer of four parameters is called
\* only with a pending error, a layer of fewer only with none, the layers in
\* front of the one called are those the error rules out and the error goes
\* past them as it is, to the layer called or to the callback, and after a
\* call of done no layer is called.
C24_Applicable ==
  [][Len(runs') >= Len(runs) =>
       \A k \in DOMAIN runs' :
         LET old == Before(k)
             new == runs'[k]
             e == IF Truthy(Given) THEN Given ELSE Undef
         IN new.index > old.index =>
              IF old.sent
                THEN Cardinality(Executing(frames', k))
                       <= Cardinality(Executing(frames, k))
              ELSE /\ \A p \in (old.index + 1)..(new.index - 1) :
                        p \in DOMAIN new.stack => ~Applicable(new.stack[p], e)
                   /\ IF new.index \in DOMAIN new.stack
                        THEN /\ Applicable(new.stack[new.index], e)
                             /\ frames' # <<>>
                             /\ frames'[Len(frames')] =
                                  [run |-> k, layer |-> new.stack[new.index],
                                   err |-> e, try |-> TRUE,
                                   ops |-> PluginDef(new.stack[new.index]).ops]
                             /\ new.calls = old.calls
                        ELSE /\ new.sent
                             /\ new.calls = Append(old.calls, e)
                             /\ Cardinality(Executing(frames', k))
                                  <= Cardinality(Executing(frames, k))]_vars

\* C24, the case: the error handler in front was passed over while there
\* was no error, the plugin after it threw, the core plugin was passed over
\* with the error, and the callback was given the error.
C24_Witness ==
  \E k \in DOMAIN runs :
    /\ runs[k].stack = <<"hClear", "pThrow", "pDone">>
    /\ runs[k].index = 4
    /\ runs[k].calls = <<E2>>

(***************************************************************************)
(* Properties of the build, under SpecBuild.                               *)
(***************************************************************************)
RECURSIVE ObjectsOf(_)
\* a value of the DSL and every value reachable through its properties
ObjectsOf(obj) ==
  {obj} \cup UNION {ObjectsOf(obj.props[name]) : name \in DOMAIN obj.props}

\* what a call of the property `name` of a value is
KindAt(obj, name) ==
  IF Has(obj, name) /\ obj.props[name].call # <<>>
    THEN obj.props[name].call[1].k ELSE "none"

IsTemplated(resource) == resource.uriParameters # <<>>

\* the name of a templated resource: the tag of a route that is one bare tag
\* with that one declared parameter, the text before the first brace otherwise
NameByRule(resource) ==
  IF /\ Len(resource.route) = 1 /\ resource.route[1].t = "tag"
     /\ keys(resource.uriParameters) = <<resource.route[1].s>>
    THEN resource.route[1].s
    ELSE prefixText(resource.route)

\* a templated route the build accepts: word characters, then tags only
Accepted(resource) ==
  /\ IsTemplated(resource) /\ ~TextAfterTag(resource.route)
  /\ \A x \in DOMAIN resource.route :
       resource.route[x].t = "lit" => IsWordText(resource.route[x].s)
  /\ \E x \in DOMAIN resource.route : resource.route[x].t = "tag"

\* C11: a templated resource whose name is get, head, put, post, patch,
\* delete, headers or query is never attached: at every value of the client
\* each of these names is absent or is the request function or the helper of
\* that name, never an accessor, and no function holds the route.
C11_ReservedNames ==
  pc = "ready" =>
    \A i \in DOMAIN handles :
      /\ \A o \in ObjectsOf(handles[i].obj) : \A name \in RESERVED_METHODS :
           Has(o, name) =>
             KindAt(o, name) = IF name \in {"query", "headers"} THEN name ELSE "verb"
      /\ \A j \in DOMAIN handles[i].res :
           (Accepted(handles[i].res[j])
              /\ NameByRule(handles[i].res[j]) \in RESERVED_METHODS)
             => \A n \in NodesOf(handles[i].obj) :
                  \A x \in DOMAIN heap[n].segs :
                    heap[n].segs[x] # handles[i].res[j].route

\* C11, the case: a value with the request function get and a resource {get}
\* declared under it.
C11_Witness ==
  /\ pc = "ready"
  /\ \E i \in DOMAIN handles : \E j \in DOMAIN handles[i].res :
       /\ Accepted(handles[i].res[j]) /\ NameByRule(handles[i].res[j]) = "get"
       /\ KindAt(handles[i].obj, "get") = "verb"

\* the static and the templated resources of one name under one parent
Merged(hd) ==
  {p \in (DOMAIN hd.res) \X (DOMAIN hd.res) :
     /\ ~IsTemplated(hd.res[p[1]]) /\ Accepted(hd.res[p[2]])
     /\ routeText(hd.res[p[1]].route) = NameByRule(hd.res[p[2]])}

\* C12: when a static and a templated resource have the same name under one
\* parent, in either order of declaration, the value at that name is the
\* accessor of the templated one and has every request function and child of
\* the static one.
C12_StaticAndTemplated ==
  pc = "ready" =>
    \A i \in DOMAIN handles : \A p \in Merged(handles[i]) :
      LET hd == handles[i]
          static == hd.res[p[1]]
          name == routeText(static.route)
      IN /\ KindAt(hd.obj, name) = "accessor"
         /\ hd.obj.props[name].call[1].route = hd.res[p[2]].route
         /\ \A m \in DOMAIN static.methods :
              /\ KindAt(hd.obj.props[name], static.methods[m].verb) = "verb"
              /\ heap[hd.obj.props[name].props[static.methods[m].verb].call[1].nodes].segs
                   = Append(hd.path, static.route)
         /\ \A c \in DOMAIN static.resources :
              ~IsTemplated(static.resources[c])
                => Has(hd.obj.props[name], routeText(static.resources[c].route))

\* C12, the case: the static resource declared first, a request made through
\* the static form and a subtree obtained from the accessor.
C12_Witness ==
  /\ pc = "ready"
  /\ \E p \in Merged(Root) : p[1] < p[2]
  /\ \E k \in DOMAIN runs : runs[k].via.path = <<<<Lit("users")>>>>
  /\ \E i \in DOMAIN handles : handles[i].depP # {} /\ Len(handles[i].path) = 1

\* C13: an accessor called with fewer arguments than its resource declares
\* uri parameters fails with InsufficientArguments, whatever the arguments
\* are, leaves every array of path nodes as it was and returns nothing.
C13_InsufficientArguments ==
  pc = "ready" =>
    \A i \in DOMAIN handles : \A name \in DOMAIN handles[i].obj.props :
      KindAt(handles[i].obj, name) = "accessor" =>
        \A args \in BuildArgs :
          Len(args) < Len(handles[i].obj.props[name].call[1].resource.uriParameters)
            => accessorCall(heap, handles[i].obj.props[name].call[1], args)
                 = [err |-> "InsufficientArguments", h |-> heap, c |-> EmptyObject]

\* C13, the case: the accessor of {a}{b} was called with too few arguments.
C13_Witness ==
  /\ pc = "ready" /\ thrown = "InsufficientArguments"
  /\ KindAt(Root.obj, "") = "accessor"
  /\ Root.obj.props[""].call[1].templateCount = 2

\* C14: a route that is one bare tag with that one declared uri parameter is
\* attached under the name of the tag, every other accepted templated route
\* under the text before its first brace.
C14_RouteNames ==
  pc = "ready" =>
    \A i \in DOMAIN handles : \A j \in DOMAIN handles[i].res :
      LET hd == handles[i]
          name == NameByRule(hd.res[j])
      IN (Accepted(hd.res[j]) /\ name \notin RESERVED_METHODS)
           => /\ KindAt(hd.obj, name) = "accessor"
              /\ \E x \in DOMAIN hd.res :
                   /\ NameByRule(hd.res[x]) = name
                   /\ hd.obj.props[name].call[1].route = hd.res[x].route

\* C14, the case: {a}{b} attached under the empty name, and a value held
\* whose resources have a bare tag.
C14_Witness ==
  /\ pc = "ready"
  /\ KindAt(Root.obj, "") = "accessor"
  /\ \E i \in DOMAIN handles : \E j \in DOMAIN handles[i].res :
       /\ Accepted(handles[i].res[j])
       /\ handles[i].res[j].route = <<Tag(NameByRule(handles[i].res[j]))>>

RECURSIVE Shape(_)
\* the names a value exposes, with what each is (a request function, a
\* helper, an accessor or a plain value) and what it exposes in turn
Shape(obj) ==
  {<<name, KindAt(obj, name), Shape(obj.props[name])>> :
     name \in DOMAIN obj.props}

\* C22: every accessor has the introspection value @return, before and
\* after any call of it; that value exposes the same names of request
\* functions, helpers and accessors, at every depth, as what a call of the
\* accessor that succeeds returns; and the calls change no value that was
\* built before them.
C22_Introspection ==
  pc = "ready" =>
    /\ Root.obj = generateClient(sanitizeAST(ast).ast).c
    /\ \A i \in DOMAIN handles : \A o \in ObjectsOf(handles[i].obj) :
         \A name \in DOMAIN o.props :
           KindAt(o, name) = "accessor" =>
             /\ Has(o.props[name], RETURN_PROPERTY)
             /\ \A args \in BuildArgs :
                  LET got == accessorCall(heap, o.props[name].call[1], args) IN
                  got.err = "ok" =>
                    Shape(got.c) = Shape(o.props[name].props[RETURN_PROPERTY])

\* C22, the case: a value returned by an accessor is held; it has a request
\* function and an accessor of its own, as the @return of its accessor has.
C22_Witness ==
  /\ pc = "ready"
  /\ \E i \in DOMAIN handles : \E name \in DOMAIN Root.obj.props :
       /\ handles[i].depP # {}
       /\ KindAt(Root.obj, name) = "accessor"
       /\ KindAt(handles[i].obj, "get") = "verb"
       /\ \E inner \in DOMAIN handles[i].obj.props :
            KindAt(handles[i].obj, inner) = "accessor"
       /\ Shape(handles[i].obj) = Shape(Root.obj.props[name].props[RETURN_PROPERTY])

(***************************************************************************)
(* Properties of the engine, under SpecEngine.                             *)
(***************************************************************************)
Validated == probe.op = "validateParam" /\ probe.done

\* the kind of an outcome: the two length errors are one kind, the two range
\* errors are one kind
Kind(out) ==
  CASE out \in {"MinLengthViolation", "MaxLengthViolation"} -> "LengthViolation"
    [] out \in {"MinimumViolation", "MaximumViolation"} -> "RangeViolation"
    [] OTHER -> out

\* C15: for an absent value (null or undefined) the outcome of the validation
\* depends on `required` alone: MissingRequired when required is true,
\* whatever the type and the other facets, and success with no other check
\* when required is unset or false.
C15_AbsentValue ==
  (Validated /\ IsNullish(probe.value)) =>
    probe.out = (IF probe.param.required = Bool(TRUE) THEN "MissingRequired"
                 ELSE "ok")

\* an absent value passed a spec that is not required and that no present
\* value of the model meets, and an absent value failed a required spec
C15_Witness ==
  /\ Validated
  /\ probe.value = Null
  /\ probe.param.type = "string"
  /\ probe.param.required = Bool(FALSE)
  /\ probe.param.minLength = <<3>>
  /\ probe.param.maxLength = <<1>>
  /\ probe.out = "ok"

\* the value has the type a spec names
OfType(value, param) ==
  CASE param.type = "string" -> value.t = "string"
    [] param.type = "integer" -> IsInteger(value)
    [] param.type = "number" -> value.t = "number" /\ value.s # "NaN"
    [] param.type = "date" -> value.t = "date"
    [] param.type = "boolean" -> value.t = "boolean"
    [] OTHER -> TRUE

\* the checks of a value in the order of the list, each with what it reports
Checks(value, param) ==
  LET isString == param.type = "string"
      isNumber == param.type \in {"integer", "number"}
  IN << [fails |-> param.required = Bool(TRUE) /\ IsNullish(value),
         err |-> "MissingRequired"],
        [fails |-> ~OfType(value, param), err |-> "TypeMismatch"],
        [fails |-> isString /\ param.enum # <<>>
                     /\ \A i \in DOMAIN param.enum[1] :
                          param.enum[1][i] # value.s,
         err |-> "EnumViolation"],
        [fails |-> isString /\ param.minLength # <<>>
                     /\ Len(value.s) < param.minLength[1],
         err |-> "LengthViolation"],
        [fails |-> isString /\ param.maxLength # <<>>
                     /\ Len(value.s) > param.maxLength[1],
         err |-> "LengthViolation"],
        [fails |-> isString /\ param.pattern # <<>>
                     /\ value.s \notin param.pattern[1],
         err |-> "PatternViolation"],
        [fails |-> isNumber /\ param.minimum # <<>>
                     /\ value.n < param.minimum[1],
         err |-> "RangeViolation"],
        [fails |-> isNumber /\ param.maximum # <<>>
                     /\ value.n > param.maximum[1],
         err |-> "RangeViolation"] >>

Failing(value, param) ==
  {i \in DOMAIN Checks(value, param) : Checks(value, param)[i].fails}

FirstFailure(value, param) ==
  IF Failing(value, param) = {} THEN "ok"
  ELSE Checks(value, param)[CHOOSE i \in Failing(value, param) :
                              \A j \in Failing(value, param) : i <= j].err

\* C16: the validation of a present value reports the first check that fails
\* in the order required, type, then enum, minLength, maxLength, pattern for
\* a string and minimum, maximum for an integer or a number, and nothing
\* else; a value that fails no check succeeds.
C16_FirstFailure ==
  (Validated /\ ~IsNullish(probe.value)) =>
    Kind(probe.out) = FirstFailure(probe.value, probe.param)

\* a string that is outside the enum, too short, too long and that does not
\* match the pattern was reported outside the enum
C16_Witness ==
  /\ Validated
  /\ probe.value = Str("ab")
  /\ Cardinality({i \in Failing(probe.value, probe.param) : i >= 3}) = 4
  /\ probe.out = "EnumViolation"

\* the number is whole
IsWhole(value) ==
  value.t = "number" /\ value.s # "NaN" /\ value.n % 10 = 0

\* the number is within the bounds that a spec sets
InRange(value, param) ==
  /\ param.minimum # <<>> => param.minimum[1] <= value.n
  /\ param.maximum # <<>> => value.n <= param.maximum[1]

\* C17: for a spec of type integer a present value fails with TypeMismatch
\* unless it is a whole number, and a whole number succeeds exactly when it is
\* within the bounds that are set, failing with RangeViolation otherwise.
C17_IntegerRange ==
  (Validated /\ probe.param.type = "integer" /\ ~IsNullish(probe.value)) =>
    Kind(probe.out) = (IF ~IsWhole(probe.value) THEN "TypeMismatch"
                       ELSE IF InRange(probe.value, probe.param) THEN "ok"
                       ELSE "RangeViolation")

Substituted == probe.op = "template" /\ probe.done

\* a declared tag stands at two places of the text
Repeated ==
  \E i, j \in Hits(probe.text, probe.params) :
    i # j /\ probe.text[i] = probe.text[j]

\* C18: for a text in which no declared tag stands twice, the substitution
\* with an object and the substitution with the array of the same values in
\* the order of the tags in the text give the same text and the same outcome
\* of the validation.
C18_NamedAndPositional ==
  (Substituted /\ ~Repeated) => probe.byIndex = probe.byName

\* /{id} became /42 with {id: "42"} and with ["42"]
C18_Witness ==
  /\ Substituted
  /\ probe.text = <<Lit("/"), Tag("id")>>
  /\ probe.values = <<Str("42")>>
  /\ probe.named = <<[name |-> "id", value |-> Str("42")]>>
  /\ probe.byIndex = [err |-> "ok", out |-> <<Lit("/"), Lit("42")>>]
  /\ probe.byName = [err |-> "ok", out |-> <<Lit("/"), Lit("42")>>]

\* C19: when no parameter is declared, the mapping being absent or empty,
\* the substitution returns every text as it is, the texts with {} or {tag}
\* included, validates nothing and raises no error.
C19_NoParameters ==
  (Substituted /\ probe.params \in {<<>>, << <<>> >>}) =>
    /\ probe.byIndex = [err |-> "ok", out |-> probe.text]
    /\ probe.byName = [err |-> "ok", out |-> probe.text]

\* the names of the declared tags of the text
TagNames == {probe.text[i].s : i \in Hits(probe.text, probe.params)}

\* the result when the declared tag at each place i is given vals[i]: the
\* outcome of the first validation that fails, or the text with each declared
\* tag replaced
Expected(vals) ==
  LET hits == Hits(probe.text, probe.params)
      outcome(i) == validateParam(vals[i], Lookup(probe.params[1], probe.text[i].s))
      bad == {i \in hits : outcome(i) # "ok"}
  IN IF bad = {}
       THEN [err |-> "ok",
             out |-> [i \in DOMAIN probe.text |->
                        IF i \in hits
                          THEN Lit(IF IsNullish(vals[i]) THEN "" ELSE ToText(vals[i]))
                          ELSE probe.text[i]]]
       ELSE [err |-> outcome(CHOOSE i \in bad : \A j \in bad : i <= j),
             out |-> <<>>]

\* the value an object gives a name
ValueOf(named, name) ==
  IF \E k \in DOMAIN named : named[k].name = name
    THEN named[CHOOSE k \in DOMAIN named : named[k].name = name].value
    ELSE Undef

\* the value an array gives the k-th match of the text
Nth(values, k) == IF k \in DOMAIN values THEN values[k] ELSE Undef

\* C20, as stated: when a declared tag stands more than once in the text,
\* every occurrence is validated and replaced by the same value, with an
\* object and with an array.
C20_SameValue ==
  (Substituted /\ Repeated) =>
    /\ probe.byName =
         Expected([i \in DOMAIN probe.text |->
                     ValueOf(probe.named, probe.text[i].s)])
    /\ \E f \in [TagNames ->
                   {Nth(probe.values, k) : k \in 0..Len(probe.values)}] :
         probe.byIndex =
           Expected([i \in DOMAIN probe.text |->
                       IF i \in Hits(probe.text, probe.params)
                         THEN f[probe.text[i].s] ELSE Undef])

\* C20, amended: when a declared tag stands more than once in the text,
\* every occurrence is validated against the spec of the tag; with an object
\* every occurrence is replaced by the value the object gives the tag, and
\* with an array the k-th match of the text is replaced by the k-th value.
C20_EveryOccurrence ==
  (Substituted /\ Repeated) =>
    /\ probe.byName =
         Expected([i \in DOMAIN probe.text |->
                     ValueOf(probe.named, probe.text[i].s)])
    /\ probe.byIndex =
         Expected([i \in DOMAIN probe.text |->
                     Nth(probe.values, Rank(probe.text, probe.params, i))])

\* {id}/{id} became 1/2 with [1, 2] and 1/1 with {id: 1}
C20_Witness ==
  /\ Substituted
  /\ probe.text = <<Tag("id"), Lit("/"), Tag("id")>>
  /\ probe.values = <<Num(1), Num(2)>>
  /\ probe.named = <<[name |-> "id", value |-> Num(1)]>>
  /\ probe.byIndex = [err |-> "ok", out |-> <<Lit("1"), Lit("/"), Lit("2")>>]
  /\ probe.byName = [err |-> "ok", out |-> <<Lit("1"), Lit("/"), Lit("1")>>]

\* C21: the substitution touches the declared tags only and passes over the
\* text once: a {tag} whose name is not a key of the mapping stays as it is
\* and takes no value of the array, and a value that is itself the text of a
\* declared tag is not replaced again.  ({} has no name and is no {tag}.)
C21_OnlyDeclared ==
  (Substituted /\ \A i \in DOMAIN probe.text : probe.text[i] # Tag("")) =>
    /\ probe.byIndex =
         Expected([i \in DOMAIN probe.text |->
                     Nth(probe.values,
                         Cardinality({j \in 1..i :
                                        j \in Hits(probe.text, probe.params)}))])
    /\ probe.byName =
         Expected([i \in DOMAIN probe.text |->
                     ValueOf(probe.named, probe.text[i].s)])
    /\ \A i \in DOMAIN probe.text :
         (probe.text[i].t = "tag" /\ i \notin Hits(probe.text, probe.params)) =>
           /\ probe.byIndex.err = "ok" => probe.byIndex.out[i] = probe.text[i]
           /\ probe.byName.err = "ok" => probe.byName.out[i] = probe.text[i]

\* in /{x}{id}, with id alone declared, {x} stayed, took no value of the
\* array ["{id}"], and the {id} that replaced the tag was not replaced again
C21_Witness ==
  /\ Substituted
  /\ probe.text = <<Lit("/"), Tag("x"), Tag("id")>>
  /\ probe.values = <<Str("{id}")>>
  /\ probe.byIndex = [err |-> "ok", out |-> <<Lit("/"), Tag("x"), Lit("{id}")>>]
  /\ probe.byName = [err |-> "ok", out |-> <<Lit("/"), Tag("x"), Lit("{id}")>>]

(***************************************************************************)
(* Properties of the registry, under SpecRegistry and SpecOverlap.         *)
(***************************************************************************)
\* the functions among the layers of a run
Offered(r) == SelectSeq(r.stack, LAMBDA p : p # "2")

\* C23: whatever calls of use and core were made on a namespace, a trigger
\* of the namespace offers the plugins given to use in the order of the
\* calls and, after all of them, the plugin last given to core: one core
\* plugin at most, the second call replacing the first, and never in front
\* of a plugin given to use.
C23_RegistrationOrder ==
  \A k \in DOMAIN runs :
    Offered(runs[k]) = runs[k].reg.used \o runs[k].reg.core

\* the run a step belongs to: that of the plugin being executed, or that of
\* the deferred callback that starts
Acting ==
  IF frames # <<>> THEN {Top.run}
  ELSE IF frames' # <<>> THEN {frames'[1].run}
  ELSE {}

\* C25: a run has the layers that were registered when it was triggered:
\* the calls of use, core and disuse made while it is in progress, by one of
\* its own plugins too and for a layer it has not come to yet, add, remove
\* and move none of its layers; and of two runs in progress each has its own
\* position and its own sent flag, which the steps of the other leave alone.
C25_OwnLayers ==
  [][Len(runs') >= Len(runs) =>
       /\ \A k \in DOMAIN runs' :
            /\ runs'[k].stack = runs'[k].reg.used \o runs'[k].reg.core
            /\ \A f \in DOMAIN frames' :
                 frames'[f].run = k =>
                   \E p \in DOMAIN runs'[k].stack :
                     /\ p <= runs'[k].index
                     /\ runs'[k].stack[p] = frames'[f].layer
       /\ \A k \in DOMAIN runs :
            /\ runs'[k].stack = runs[k].stack
            /\ runs'[k].reg = runs[k].reg
            /\ k \notin Acting =>
                 /\ runs'[k].index = runs[k].index
                 /\ runs'[k].sent = runs[k].sent
                 /\ runs'[k].calls = runs[k].calls]_vars

\* C25, the case: two runs in progress, one waiting for a later callback
\* and one with a plugin being executed, at different positions, one with
\* sent set and one without, neither with the layers the registry has now.
C25_Witness ==
  /\ Len(runs) = 2
  /\ runs[1].tasks # <<>>
  /\ frames # <<>> /\ Top.run = 2
  /\ runs[1].index # runs[2].index
  /\ runs[1].sent # runs[2].sent
  /\ \A k \in DOMAIN runs :
       runs[k].stack # Layers(stack, "ajax") \o core["ajax"]

====
